---- MODULE Spec2Model ----
(***************************************************************************)
(* Verification model of the optimization-and-mesh-deformation core of     *)
(* cashocs: the DeformationHandler (mesh moves with a priori / a           *)
(* posteriori validation and one-level rollback), the L-BFGS solver loop   *)
(* with its curvature memory, the post-processing of a finished run and    *)
(* the remesh / checkpoint / relaunch protocol.                            *)
(*                                                                         *)
(* Numbers: coordinates, gradients and norms are integers.  The mesh is a  *)
(* one-dimensional chain of three vertices and two cells, so that the      *)
(* determinant of (Identity + grad(transformation)) on a cell is the       *)
(* quotient of the cell's new and old signed lengths, and the collisions   *)
(* of a vertex are the cells whose interval contains it.                   *)
(*                                                                         *)
(* Three specifications share the variables: SpecDeformation drives the    *)
(* DeformationHandler; Spec follows a solver process through run(),        *)
(* post_processing() and remesh() with the gradient reduced to its norm;   *)
(* SpecMemory follows the loop of run() with two-component gradients and   *)
(* the deques of the curvature memory.  temp_dict is a record; the entries *)
(* of temp_dict["OptimizationRoutine"] are held under their own keys, and  *)
(* mesh files are named by the remesh counter in their file name.          *)
(***************************************************************************)
EXTENDS Integers, Sequences, FiniteSets, TLC

VARIABLES
    \* ---- DeformationHandler (geometry/deformation_handler.py) ----
    coordinates,        \* mesh.coordinates(): vertex -> coordinate
    old_coordinates,    \* self.old_coordinates, or Deleted after `del`
    last_call,          \* the call that ran last: its input, what it wrote, what it returned
    snapshot_event,     \* history: the last event that created or deleted the snapshot
    \* ---- the solver process (optimization_algorithm.py, l_bfgs.py, managers.py) ----
    pc,                 \* position of the process: run, loop, gradient, post_processing, ...
    config,             \* the configuration the process was started with
    iteration, gradient_norm, gradient_norm_initial, relative_norm,
    objective_value, stepsize, current_mesh_quality,
    converged, converged_reason,
    line_search_broken, requires_remeshing, remeshing_its,
    output_dict,        \* ResultManager.output_dict: the four history series
    temp_dict,          \* the process's temp_dict (in memory)
    remesh_counter,     \* _MeshHandler.remesh_counter
    checkpoint_file,    \* the text of {temp_dir}/temp_dict.json on disk
    log,                \* the effects of the running post_processing call, in order
    launch,             \* how many times the process has been relaunched
    argv,               \* sys.argv of the process
    \* ---- history variables of the solver process ----
    captured,           \* the norms convergence_test stored in gradient_norm_initial
    line_searches,      \* line searches completed since the first launch
    norms,              \* the gradient norms convergence_test has tested, in order
    \* ---- the curvature memory of the L-BFGS method (l_bfgs.py) ----
    lbfgs_pc,           \* position in the loop of run()
    bfgs_memory_size, gradient, gradient_prev, search_direction,
    history_s, history_y, history_rho,      \* the deques, newest entry first
    has_curvature_info,
    last_update,        \* history: what the last update_hessian_approximation call saw
    \* ---- the shape layer (mesh_handler.py, shape_variable_abstractions.py) ----
    shape_pc,           \* position: construct, idle, trial, returned, remesh, raised
    mesh_config,        \* the [MeshQuality] options of the mesh handler
    shape_direction,    \* the search direction of the running line search, per vertex
    trial,              \* the local stepsize of the running trial loop, with its history
    last_move,          \* history: the last _MeshHandler.move_mesh call
    qualities,          \* history: the mesh qualities requires_remeshing has looked at
    snes,               \* SNESSolver: its options, self.u and the state of the backend
    projection,         \* the call of project_to_working_set under way, on all ranks
    step,               \* the call of compute_step under way
    rank,               \* compute_step seen rank by rank: each rank's position and locals
    shared,             \* the distributed arrays of that call: arguments and iterate y_j
    remeshing           \* remesh() seen rank by rank: positions and the files on disk

dvars == <<coordinates, old_coordinates, last_call, snapshot_event>>

svars == <<pc, config, iteration, gradient_norm, gradient_norm_initial, relative_norm,
           objective_value, stepsize, current_mesh_quality, converged, converged_reason,
           line_search_broken, requires_remeshing, remeshing_its, output_dict,
           temp_dict, remesh_counter, checkpoint_file, log, launch, argv,
           captured, line_searches, norms>>

mvars == <<lbfgs_pc, bfgs_memory_size, gradient, gradient_prev, search_direction,
           history_s, history_y, history_rho, has_curvature_info, last_update>>

\* the solver variables the curvature memory model leaves alone
rvars == <<pc, config, gradient_norm, gradient_norm_initial, relative_norm,
           objective_value, current_mesh_quality, converged, converged_reason,
           line_search_broken, requires_remeshing, remeshing_its, output_dict,
           temp_dict, remesh_counter, checkpoint_file, log, launch,
           captured, line_searches, norms>>

hvars == <<shape_pc, mesh_config, shape_direction, trial, last_move, qualities>>

\* the solver variables the shape layer leaves alone
qvars == <<pc, config, gradient_norm, gradient_norm_initial, relative_norm,
           objective_value, converged, converged_reason, line_search_broken,
           remeshing_its, output_dict, temp_dict, remesh_counter, checkpoint_file,
           log, launch, argv, captured, line_searches, norms>>

\* the variables of the components a specification of another component leaves alone
\* the projection onto the working set
cvars == <<projection, step>>

\* compute_step rank by rank
kvars == <<rank, shared>>

\* the nonlinear solver and the projection
xvars == <<snes, cvars, kvars, remeshing>>

ovars == <<hvars, xvars>>

vars == <<dvars, svars, mvars, ovars>>

(***************************************************************************)
(* Bounds of the model                                                     *)
(***************************************************************************)
MaxCoord == 2           \* coordinates range over 0..MaxCoord
MaxDef == 1             \* a transformation moves a vertex by -MaxDef..MaxDef
MaxNorm == 2            \* gradient norms range over 0..MaxNorm
MaxMem == 2             \* bfgs_memory_size ranges over 0..MaxMem
MaxUpdates == 3         \* iterations of the loop followed by the curvature memory model
MaxShapeCoord == 4      \* the shape layer moves vertices within 0..MaxShapeCoord
MaxLineSearches == 2    \* line searches followed by the shape layer model
MaxArgs == 3            \* a first command line has at most MaxArgs arguments after the script
MaxRemesh == 2
MaxSnesIt == 2
MaxPoint == 4          \* the process is relaunched at most MaxRemesh times

(***************************************************************************)
(* The mesh: topology and the quantities derived from it                   *)
(***************************************************************************)
Vertices == {1, 2, 3}
Cells == {<<1, 2>>, <<2, 3>>}
Coords == [Vertices -> 0..MaxCoord]
Transformations == [Vertices -> (0 - MaxDef)..MaxDef]
Deleted == <<>>         \* the attribute old_coordinates does not exist

Min2(a, b) == IF a <= b THEN a ELSE b
Max2(a, b) == IF a <= b THEN b ELSE a

\* self.occurrences: the number of cells each vertex belongs to
occurrences == [v \in Vertices |-> Cardinality({c \in Cells : c[1] = v \/ c[2] = v})]

\* CollisionCounter.compute_collisions: per vertex, the cells colliding with its point
compute_collisions(x) ==
    [v \in Vertices |->
        Cardinality({c \in Cells : /\ Min2(x[c[1]], x[c[2]]) <= x[v]
                                   /\ x[v] <= Max2(x[c[1]], x[c[2]])})]

\* (collisions == self.occurrences).all()
collisions_match(x) == compute_collisions(x) = occurrences

\* sign of det(I + grad u) on cell c of the mesh x: new length * old length
det_sign(x, u, c) ==
    ((x[c[2]] + u[c[2]]) - (x[c[1]] + u[c[1]])) * (x[c[2]] - x[c[1]])

\* A wrong a priori test: min_det >= 0 in place of min_det > 0
test_a_priori_nonstrict(x, u) == \A c \in Cells : det_sign(x, u, c) >= 0

\* DeformationHandler.__test_a_priori: min_det > 0
test_a_priori(x, u) == \A c \in Cells : det_sign(x, u, c) > 0

add(x, u) == [v \in Vertices |-> x[v] + u[v]]

(***************************************************************************)
(* The handler's operations as functions of the state (c, old).  Each      *)
(* gives the state on return, the return value and the number of writes    *)
(* to the coordinate array.                                                *)
(***************************************************************************)
\* A wrong revert: the snapshot is not deleted
revert_keeps_snapshot(c, old) ==
    IF old = Deleted
    THEN [coordinates |-> c, old_coordinates |-> old, ret |-> "AttributeError",
          writes |-> 0, event |-> "none"]
    ELSE [coordinates |-> old, old_coordinates |-> old, ret |-> "None",
          writes |-> 1, event |-> "revert"]

\* A wrong revert: the snapshot is deleted but never written back
revert_without_write(c, old) ==
    IF old = Deleted
    THEN [coordinates |-> c, old_coordinates |-> old, ret |-> "AttributeError",
          writes |-> 0, event |-> "none"]
    ELSE [coordinates |-> c, old_coordinates |-> Deleted, ret |-> "None",
          writes |-> 0, event |-> "revert"]

\* DeformationHandler.revert_transformation: reading the deleted attribute raises
\* before the coordinates are written
revert(c, old) ==
    IF old = Deleted
    THEN [coordinates |-> c, old_coordinates |-> old, ret |-> "AttributeError",
          writes |-> 0, event |-> "none"]
    ELSE [coordinates |-> old, old_coordinates |-> Deleted, ret |-> "None",
          writes |-> 1, event |-> "revert"]

\* A wrong a posteriori test: failure is reported but the mesh is not rolled back
test_a_posteriori_no_rollback(c, old) ==
    IF ~collisions_match(c)
    THEN [coordinates |-> c, old_coordinates |-> old, ret |-> "False",
          writes |-> 0, event |-> "move"]
    ELSE [coordinates |-> c, old_coordinates |-> old, ret |-> "True",
          writes |-> 0, event |-> "move"]

\* DeformationHandler.__test_a_posteriori, called on the moved mesh
test_a_posteriori(c, old) ==
    IF ~collisions_match(c)
    THEN LET r == revert(c, old) IN
         [coordinates |-> r.coordinates, old_coordinates |-> r.old_coordinates,
          ret |-> "False", writes |-> r.writes, event |-> "rollback"]
    ELSE [coordinates |-> c, old_coordinates |-> old, ret |-> "True",
          writes |-> 0, event |-> "move"]

\* A wrong snapshot: old_coordinates aliases the coordinate array (no .copy()),
\* so it holds the moved coordinates
snapshot_then_write_alias(c, new) ==
    LET r == test_a_posteriori(new, new) IN
    [r EXCEPT !.writes = r.writes + 1]

\* old_coordinates = coordinates().copy(); write the coordinates; bbtree.build;
\* return __test_a_posteriori()
snapshot_then_write(c, new) ==
    LET r == test_a_posteriori(new, c) IN
    [r EXCEPT !.writes = r.writes + 1]

\* DeformationHandler.move_mesh as a function of the state
move_mesh_result(c, old, transformation, validated_a_priori) ==
    IF ~validated_a_priori /\ ~test_a_priori(c, transformation)
    THEN [coordinates |-> c, old_coordinates |-> old, ret |-> "False",
          writes |-> 0, event |-> "none"]
    ELSE snapshot_then_write(c, add(c, transformation))

(***************************************************************************)
(* State after construction, and the handler's actions                     *)
(***************************************************************************)
\* A valid finite element mesh: no vertex collides with a cell it is not part of
ValidMeshes == {x \in Coords : collisions_match(x) /\ x[1] < x[2]}

NoArg == [v \in Vertices |-> 0]

Call(op, arg, validated, pre, r) ==
    [op |-> op, arg |-> arg, validated |-> validated, pre |-> pre,
     ret |-> r.ret, writes |-> r.writes]

Effect(op, arg, validated, r) ==
    /\ coordinates' = r.coordinates
    /\ old_coordinates' = r.old_coordinates
    /\ last_call' = Call(op, arg, validated, coordinates, r)
    /\ snapshot_event' = IF r.event = "none" THEN snapshot_event ELSE r.event
    /\ UNCHANGED <<svars, mvars, ovars>>

\* DeformationHandler.__init__
InitDeformation ==
    /\ coordinates \in ValidMeshes
    /\ old_coordinates = coordinates
    /\ last_call = [op |-> "__init__", arg |-> NoArg, validated |-> FALSE,
                    pre |-> coordinates, ret |-> "None", writes |-> 0]
    /\ snapshot_event = "__init__"

move_mesh(transformation, validated_a_priori) ==
    /\ add(coordinates, transformation) \in Coords
    /\ Effect("move_mesh", transformation, validated_a_priori,
              move_mesh_result(coordinates, old_coordinates, transformation,
                               validated_a_priori))

assign_coordinates(new) ==
    Effect("assign_coordinates", new, FALSE, snapshot_then_write(coordinates, new))

revert_transformation ==
    Effect("revert_transformation", NoArg, FALSE, revert(coordinates, old_coordinates))

NextDeformation ==
    \/ \E u \in Transformations, v \in BOOLEAN : move_mesh(u, v)
    \/ \E new \in Coords : assign_coordinates(new)
    \/ revert_transformation


(***************************************************************************)
(* The solver process: configuration, history series, checkpoint           *)
(***************************************************************************)
\* the configurations a process is started with (rtol is a fraction <<num, den>>)
Configs ==
    [maximum_iterations : {2, 3}, soft_exit : BOOLEAN, do_remesh : BOOLEAN,
     atol : {0, 1}, rtol : {<<1, 2>>}]

\* the values cost_functional.evaluate() returns
CostValues == {1}

\* what line_search.perform leaves behind: the accepted stepsize, the quality of the
\* moved mesh, and the flags it raises
LineSearchOutcomes ==
    [stepsize : {1, 2}, quality : {2}, broken : {FALSE}, remesh : {FALSE}, its : {FALSE}]
    \cup [stepsize : {1}, quality : {2}, broken : {TRUE}, remesh : {FALSE}, its : BOOLEAN]
    \cup [stepsize : {1}, quality : {1}, broken : BOOLEAN, remesh : {TRUE}, its : BOOLEAN]
    \cup [stepsize : {1}, quality : {2}, broken : {FALSE}, remesh : {FALSE}, its : {TRUE}]

\* ResultManager.__init__, the else branch: empty history series
EmptySeries ==
    [cost_function_value |-> <<>>, gradient_norm |-> <<>>, stepsize |-> <<>>,
     MeshQuality |-> <<>>]

\* gradient_norm / gradient_norm_initial as a fraction; 0.0 when the division fails
Ratio(gn, gni) == IF gni = 0 THEN <<0, 1>> ELSE <<gn, gni>>

\* the keys of temp_dict.json, in the order they are written
KeyOrder ==
    <<"gmsh_file", "geo_file", "temp_dir", "output_dict", "remesh_counter",
      "remesh_directory", "result_dir", "mesh_file", "iteration_counter",
      "gradient_norm_initial">>

AllKeys == {KeyOrder[i] : i \in 1..Len(KeyOrder)}

\* the value a key is read with when the dictionary does not hold it
DefaultValue(k) == IF k = "output_dict" THEN EmptySeries ELSE 0

\* dict.get(key, default)
get(d, k, default) == IF k \in d.present THEN d[k] ELSE default

\* temp_dict of a first launch: the mesh files and the temporary directory are known
FirstTempDict ==
    [k \in AllKeys \cup {"isNone", "present"} |->
        IF k = "isNone" THEN FALSE
        ELSE IF k = "present" THEN {"gmsh_file", "geo_file", "temp_dir"}
        ELSE DefaultValue(k)]

\* temp_dict = None: a problem without remeshing
NoTempDict == [FirstTempDict EXCEPT !["isNone"] = TRUE, !["present"] = {}]

\* json.dump(temp_dict, file): the key/value pairs of the dictionary, as text
json_dump(d) ==
    LET ks == SelectSeq(KeyOrder, LAMBDA k : k \in d.present) IN
    [i \in 1..Len(ks) |-> <<ks[i], d[ks[i]]>>]

\* json.load(file): the dictionary holding the pairs of the text
json_load(text) ==
    [k \in AllKeys \cup {"isNone", "present"} |->
        IF k = "isNone" THEN FALSE
        ELSE IF k = "present" THEN {text[i][1] : i \in 1..Len(text)}
        ELSE IF \E i \in 1..Len(text) : text[i][1] = k
             THEN text[CHOOSE i \in 1..Len(text) : text[i][1] = k][2]
             ELSE DefaultValue(k)]

\* A wrong restore: the history series start empty after a relaunch
ResultManager_init_empty(td, is_remeshed) == EmptySeries

\* ResultManager.__init__: the history series of a (re)launched shape problem
ResultManager_init(td, is_remeshed) ==
    IF ~td.isNone /\ is_remeshed
    THEN LET saved == td["output_dict"] IN
         [cost_function_value |-> saved.cost_function_value,
          gradient_norm |-> saved.gradient_norm,
          stepsize |-> saved.stepsize,
          MeshQuality |-> saved.MeshQuality]
    ELSE EmptySeries

\* ResultManager.output: one entry per series
ResultManager_output(od, J, rel, quality, t) ==
    [cost_function_value |-> Append(od.cost_function_value, J),
     gradient_norm |-> Append(od.gradient_norm, rel),
     stepsize |-> Append(od.stepsize, t),
     MeshQuality |-> Append(od.MeshQuality, quality)]

(***************************************************************************)
(* OptimizationAlgorithm: initialize_solver, convergence_test,             *)
(* nonconvergence                                                          *)
(***************************************************************************)
\* a wrong initialize_solver: the checkpointed counter is not read
initialize_solver_fresh(td) ==
    IF td.isNone
    THEN [iteration |-> 0, gradient_norm_initial |-> 0]
    ELSE [iteration |-> 0,
          gradient_norm_initial |-> get(td, "gradient_norm_initial", 0)]

\* initialize_solver: the counter and the initial norm of the checkpoint, or 0
initialize_solver(td) ==
    IF td.isNone
    THEN [iteration |-> 0, gradient_norm_initial |-> 0]
    ELSE [iteration |-> get(td, "iteration_counter", 0),
          gradient_norm_initial |-> get(td, "gradient_norm_initial", 0)]

\* gradient_norm <= atol + rtol * gradient_norm_initial
MeetsTolerance(gn, gni, cfg) ==
    gn * cfg.rtol[2] <= cfg.atol * cfg.rtol[2] + cfg.rtol[1] * gni

\* A wrong convergence test: the initial norm is captured at every call
convergence_test_recapture(it, gn, gni, cfg) ==
    [gradient_norm_initial |-> gn, relative_norm |-> Ratio(gn, gn),
     captures |-> TRUE, ret |-> MeetsTolerance(gn, gn, cfg)]

\* OptimizationAlgorithm.convergence_test
convergence_test(it, gn, gni, cfg) ==
    LET gni1 == IF it = 0 THEN gn ELSE gni IN
    [gradient_norm_initial |-> gni1, relative_norm |-> Ratio(gn, gni1),
     captures |-> (it = 0), ret |-> MeetsTolerance(gn, gni1, cfg)]

\* a wrong nonconvergence: the counter is compared with one iteration too many
nonconvergence_one_more(it, cfg, broken, remesh, its, reason) ==
    LET r1 == IF it > cfg.maximum_iterations THEN 0 - 1 ELSE reason
        r2 == IF broken THEN 0 - 2 ELSE r1
        r3 == IF remesh THEN 0 - 3 ELSE r2
        r4 == IF its THEN 0 - 4 ELSE r3
    IN  r4

\* a wrong nonconvergence: the first test that holds decides the reason
nonconvergence_first_wins(it, cfg, broken, remesh, its, reason) ==
    IF it >= cfg.maximum_iterations THEN 0 - 1
    ELSE IF broken THEN 0 - 2
    ELSE IF remesh THEN 0 - 3
    ELSE IF its THEN 0 - 4
    ELSE reason

\* OptimizationAlgorithm.nonconvergence: four tests in a row, each overwriting
\* converged_reason
nonconvergence(it, cfg, broken, remesh, its, reason) ==
    LET r1 == IF it >= cfg.maximum_iterations THEN 0 - 1 ELSE reason
        r2 == IF broken THEN 0 - 2 ELSE r1
        r3 == IF remesh THEN 0 - 3 ELSE r2
        r4 == IF its THEN 0 - 4 ELSE r3
    IN  r4

(***************************************************************************)
(* _MeshHandler.remesh and OptimizationAlgorithm.post_processing           *)
(***************************************************************************)
\* the external commands remesh runs with check=True, in the order it runs them
RemeshCommands == <<"gmsh", "mv", "cashocs-convert", "rm">>

\* the events up to and including the command that fails (all of them when none does)
RECURSIVE UpTo(_, _)
UpTo(events, stop) ==
    IF events = <<>> THEN <<>>
    ELSE IF Head(events) = stop THEN <<stop>>
    ELSE <<Head(events)>> \o UpTo(Tail(events), stop)

\* the temp_dict remesh() has built when it writes the checkpoint
remesh_temp_dict(td, od, it, gni, counter) ==
    [td EXCEPT !["present"] = @ \cup {"output_dict", "remesh_counter", "remesh_directory",
                                      "result_dir", "mesh_file", "gmsh_file",
                                      "iteration_counter", "gradient_norm_initial"},
               !["output_dict"] = od,
               !["remesh_counter"] = counter,
               !["mesh_file"] = counter,
               !["gmsh_file"] = counter,
               !["iteration_counter"] = it + 1,
               !["gradient_norm_initial"] = gni]

\* the steps of remesh() in program order; a command that exits non-zero raises
\* CalledProcessError at its place
remesh_steps ==
    <<"write_out_mesh", "generate_remesh_geo", "gmsh", "mv", "cashocs-convert", "rm",
      "open temp_dict.json", "json.dump", "close temp_dict.json", "execv">>

\* A wrong remesh: the exit status of the commands is not checked
remesh_unchecked(failing, td, od, it, gni, counter, file) ==
    [log |-> [i \in 1..Len(remesh_steps) |->
                 IF remesh_steps[i] = failing THEN failing \o " failed"
                 ELSE remesh_steps[i]],
     pc |-> "exec",
     temp_dict |-> remesh_temp_dict(td, od, it, gni, counter + 1),
     remesh_counter |-> counter + 1,
     checkpoint_file |-> json_dump(remesh_temp_dict(td, od, it, gni, counter + 1))]

\* _MeshHandler.remesh(solver): `failing` is the command that exits non-zero ("none"
\* when all exit 0)
remesh(failing, td, od, it, gni, counter, file) ==
    IF failing = "none"
    THEN [log |-> remesh_steps,
          pc |-> "exec",
          temp_dict |-> remesh_temp_dict(td, od, it, gni, counter + 1),
          remesh_counter |-> counter + 1,
          checkpoint_file |-> json_dump(remesh_temp_dict(td, od, it, gni, counter + 1))]
    ELSE [log |-> [i \in 1..Len(UpTo(remesh_steps, failing)) |->
                      IF remesh_steps[i] = failing THEN failing \o " failed"
                      ELSE remesh_steps[i]]
                  \o <<"raise CalledProcessError">>,
          pc |-> "raised",
          temp_dict |-> IF failing \in {"gmsh", "mv"}
                        THEN [td EXCEPT !["present"] = @ \cup {"output_dict"},
                                        !["output_dict"] = od]
                        ELSE [td EXCEPT !["present"] = @ \cup {"output_dict", "remesh_counter",
                                                               "remesh_directory", "result_dir"},
                                        !["output_dict"] = od,
                                        !["remesh_counter"] = counter + 1],
          remesh_counter |-> counter + 1,
          checkpoint_file |-> file]

\* OutputManager.output_summary(solver): the human-readable summary
\* (FileManager.output_summary) and the JSON history (ResultManager.post_process)
output_summary == <<"summary_txt", "history_json">>

\* how a fatal reason ends: a message (soft exit) or NotConvergedError
exit_with(cfg, message) ==
    IF cfg.soft_exit THEN <<message>> ELSE <<"raise NotConvergedError">>

\* A wrong post_processing: a broken line search raises before the summary
post_processing_raise_first(conv, reason, cfg) ==
    IF conv THEN [output |-> TRUE, dec |-> 0, remesh |-> FALSE,
                  log |-> <<"output">> \o output_summary]
    ELSE IF reason = 0 - 1
    THEN [output |-> TRUE, dec |-> 0, remesh |-> FALSE,
          log |-> <<"output">> \o output_summary \o exit_with(cfg, "print")]
    ELSE IF reason = 0 - 2
    THEN [output |-> FALSE, dec |-> 1, remesh |-> FALSE,
          log |-> exit_with(cfg, "print") \o output_summary]
    ELSE IF reason = 0 - 3
    THEN IF cfg.do_remesh
         THEN [output |-> FALSE, dec |-> 1, remesh |-> TRUE, log |-> <<"info">>]
         ELSE [output |-> FALSE, dec |-> 1, remesh |-> FALSE,
               log |-> output_summary \o exit_with(cfg, "error")]
    ELSE IF reason = 0 - 4
    THEN [output |-> FALSE, dec |-> 0, remesh |-> FALSE,
          log |-> output_summary \o exit_with(cfg, "print")]
    ELSE [output |-> FALSE, dec |-> 0, remesh |-> FALSE, log |-> <<>>]

\* OptimizationAlgorithm.post_processing: whether output() is called, by how much the
\* iteration counter is decreased, whether remesh() is called, and the effects in
\* program order
post_processing_plan(conv, reason, cfg) ==
    IF conv THEN [output |-> TRUE, dec |-> 0, remesh |-> FALSE,
                  log |-> <<"output">> \o output_summary]
    ELSE IF reason = 0 - 1
    THEN [output |-> TRUE, dec |-> 0, remesh |-> FALSE,
          log |-> <<"output">> \o output_summary \o exit_with(cfg, "print")]
    ELSE IF reason = 0 - 2
    THEN [output |-> FALSE, dec |-> 1, remesh |-> FALSE,
          log |-> output_summary \o exit_with(cfg, "print")]
    ELSE IF reason = 0 - 3
    THEN IF cfg.do_remesh
         THEN [output |-> FALSE, dec |-> 1, remesh |-> TRUE, log |-> <<"info">>]
         ELSE [output |-> FALSE, dec |-> 1, remesh |-> FALSE,
               log |-> output_summary \o exit_with(cfg, "error")]
    ELSE IF reason = 0 - 4
    THEN [output |-> FALSE, dec |-> 0, remesh |-> FALSE,
          log |-> output_summary \o exit_with(cfg, "print")]
    ELSE [output |-> FALSE, dec |-> 0, remesh |-> FALSE, log |-> <<>>]

(***************************************************************************)
(* _MeshHandler.remesh: the command line of the relaunched process         *)
(***************************************************************************)
\* self.temp_dir, the directory of the checkpoint
TempDir == "dir"

\* the arguments a command line is made of
Tokens == {"--cashocs_remesh", "--temp_dir", TempDir, "other"}

\* the indices of the entries of l equal to x
Indices(l, x) == {i \in 1..Len(l) : l[i] = x}

\* list.pop(i)
Remove(l, i) == SubSeq(l, 1, i - 1) \o SubSeq(l, i + 1, Len(l))

\* the only element of a set with one element
TheOne(S) == CHOOSE i \in S : TRUE

\* filter_sys_argv(): the argument list without one '--cashocs_remesh', one
\* occurrence of the temporary directory and one '--temp_dir', or InputError. The
\* third test looks at the indices of the temporary directory once more: they were
\* computed before the directory was removed and number at most one here
filter_sys_argv(args, temp_dir) ==
    LET idx_cashocs_remesh_flag == Indices(args, "--cashocs_remesh")
        a1 == IF Cardinality(idx_cashocs_remesh_flag) = 1
              THEN Remove(args, TheOne(idx_cashocs_remesh_flag)) ELSE args
        idx_temp_dir == Indices(a1, temp_dir)
        a2 == IF Cardinality(idx_temp_dir) = 1
              THEN Remove(a1, TheOne(idx_temp_dir)) ELSE a1
        idx_temp_dir_flag == Indices(a2, "--temp_dir")
        a3 == IF Cardinality(idx_temp_dir_flag) = 1
              THEN Remove(a2, TheOne(idx_temp_dir_flag)) ELSE a2
    IN  IF Cardinality(idx_cashocs_remesh_flag) > 1
        THEN [ret |-> "InputError", arg_list |-> args]
        ELSE IF Cardinality(idx_temp_dir) > 1
        THEN [ret |-> "InputError", arg_list |-> a1]
        ELSE IF Cardinality(idx_temp_dir) > 1
        THEN [ret |-> "InputError", arg_list |-> a2]
        ELSE [ret |-> "None", arg_list |-> a3]

\* the sys.argv of the process os.execv starts
execv_args(args, temp_dir) ==
    filter_sys_argv(args, temp_dir).arg_list \o <<"--cashocs_remesh", "--temp_dir", temp_dir>>

\* remesh() with its last step: an InputError of filter_sys_argv replaces the execv
execv_outcome(r, args) ==
    IF r.pc = "exec" /\ filter_sys_argv(args, TempDir).ret = "InputError"
    THEN [r EXCEPT !.pc = "raised",
                   !.log = SubSeq(r.log, 1, Len(r.log) - 1) \o <<"raise InputError">>]
    ELSE r

(***************************************************************************)
(* The solver process: state after construction and actions                *)
(***************************************************************************)
\* OptimizationAlgorithm.__init__ and ResultManager.__init__ of a process started
\* with temp_dict td
Construct(cfg, td, is_remeshed) ==
    /\ pc = "run"
    /\ config = cfg
    /\ iteration = 0
    /\ gradient_norm = 1
    /\ gradient_norm_initial = 1
    /\ relative_norm = <<1, 1>>
    /\ objective_value = 1
    /\ stepsize = 1
    /\ current_mesh_quality = 2
    /\ converged = FALSE
    /\ converged_reason = 0
    /\ line_search_broken = FALSE
    /\ requires_remeshing = FALSE
    /\ remeshing_its = FALSE
    /\ output_dict = ResultManager_init(td, is_remeshed)
    /\ temp_dict = td
    /\ remesh_counter = get(td, "remesh_counter", 0)
    /\ log = <<>>

InitSolver ==
    /\ \E cfg \in Configs :
          Construct(cfg, IF cfg.do_remesh THEN FirstTempDict ELSE NoTempDict, FALSE)
    /\ checkpoint_file = <<>>
    /\ launch = 0
    /\ captured = <<>>
    /\ line_searches = 0
    /\ norms = <<>>
    /\ argv = <<"script.py">>

\* LBFGSMethod.run up to the loop: initialize_solver, compute_gradient,
\* convergence_test
run_begin ==
    /\ pc = "run"
    /\ \E gn \in 0..MaxNorm :
          LET i0 == initialize_solver(temp_dict)
              t == convergence_test(i0.iteration, gn, i0.gradient_norm_initial, config)
          IN  /\ iteration' = i0.iteration
              /\ gradient_norm' = gn
              /\ gradient_norm_initial' = t.gradient_norm_initial
              /\ relative_norm' = t.relative_norm
              /\ converged' = t.ret
              /\ objective_value' \in IF t.ret /\ i0.iteration = 0
                                      THEN CostValues ELSE {objective_value}
              /\ pc' = IF t.ret THEN "post_processing" ELSE "loop"
              /\ captured' = IF t.captures THEN Append(captured, gn) ELSE captured
              /\ norms' = Append(norms, gn)
    /\ UNCHANGED <<config, stepsize, current_mesh_quality, converged_reason,
                   line_search_broken, requires_remeshing, remeshing_its, output_dict,
                   temp_dict, remesh_counter, checkpoint_file, log, launch,
                   line_searches>>
    /\ UNCHANGED <<dvars, mvars, ovars, argv>>

\* the loop body up to the break on nonconvergence(): search direction, output(),
\* line search, iteration += 1
run_line_search ==
    /\ pc = "loop"
    /\ \E J \in CostValues, ls \in LineSearchOutcomes :
          LET reason == nonconvergence(iteration + 1, config, ls.broken, ls.remesh,
                                       ls.its, converged_reason)
          IN  /\ objective_value' = J
              /\ output_dict' = ResultManager_output(output_dict, J, relative_norm,
                                                     current_mesh_quality, stepsize)
              /\ stepsize' = ls.stepsize
              /\ current_mesh_quality' = ls.quality
              /\ line_search_broken' = ls.broken
              /\ requires_remeshing' = ls.remesh
              /\ remeshing_its' = ls.its
              /\ iteration' = iteration + 1
              /\ converged_reason' = reason
              /\ pc' = IF reason < 0 THEN "post_processing" ELSE "gradient"
    /\ line_searches' = line_searches + 1
    /\ UNCHANGED <<config, gradient_norm, gradient_norm_initial, relative_norm,
                   converged, temp_dict, remesh_counter, checkpoint_file, log, launch,
                   captured, norms>>
    /\ UNCHANGED <<dvars, mvars, ovars, argv>>

\* the rest of the loop body: the new gradient, its norm, convergence_test
run_gradient ==
    /\ pc = "gradient"
    /\ \E gn \in 0..MaxNorm :
          LET t == convergence_test(iteration, gn, gradient_norm_initial, config)
          IN  /\ gradient_norm' = gn
              /\ gradient_norm_initial' = t.gradient_norm_initial
              /\ relative_norm' = t.relative_norm
              /\ converged' = t.ret
              /\ pc' = IF t.ret THEN "post_processing" ELSE "loop"
              /\ captured' = IF t.captures THEN Append(captured, gn) ELSE captured
              /\ norms' = Append(norms, gn)
    /\ UNCHANGED <<config, iteration, objective_value, stepsize, current_mesh_quality,
                   converged_reason, line_search_broken, requires_remeshing,
                   remeshing_its, output_dict, temp_dict, remesh_counter,
                   checkpoint_file, log, launch, line_searches>>
    /\ UNCHANGED <<dvars, mvars, ovars, argv>>

\* OptimizationAlgorithm.post_processing, with the remesh() it may call
post_processing ==
    /\ pc = "post_processing"
    /\ LET plan == post_processing_plan(converged, converged_reason, config)
           od == IF plan.output
                 THEN ResultManager_output(output_dict, objective_value, relative_norm,
                                           current_mesh_quality, stepsize)
                 ELSE output_dict
           it == iteration - plan.dec
       IN  /\ iteration' = it
           /\ output_dict' = od
           /\ IF plan.remesh
              THEN \E failing \in {"none"} \cup {RemeshCommands[i] : i \in 1..Len(RemeshCommands)} :
                      LET r == execv_outcome(
                                   remesh(failing, temp_dict, od, it, gradient_norm_initial,
                                          remesh_counter, checkpoint_file), argv)
                      IN  /\ log' = plan.log \o r.log
                          /\ pc' = r.pc
                          /\ temp_dict' = r.temp_dict
                          /\ remesh_counter' = r.remesh_counter
                          /\ checkpoint_file' = r.checkpoint_file
              ELSE /\ log' = plan.log
                   /\ pc' = IF "raise NotConvergedError" \in {plan.log[i] : i \in 1..Len(plan.log)}
                            THEN "raised" ELSE "done"
                   /\ UNCHANGED <<temp_dict, remesh_counter, checkpoint_file>>
    /\ UNCHANGED <<config, gradient_norm, gradient_norm_initial, relative_norm,
                   objective_value, stepsize, current_mesh_quality, converged,
                   converged_reason, line_search_broken, requires_remeshing,
                   remeshing_its, launch, captured, line_searches, norms>>
    /\ UNCHANGED <<dvars, mvars, ovars, argv>>

\* os.execv: the relaunched process reads temp_dict.json and is constructed from it
relaunch ==
    /\ pc = "exec"
    /\ launch < MaxRemesh
    /\ pc' = "run"
    /\ config' = config
    /\ iteration' = 0
    /\ gradient_norm' = 1
    /\ gradient_norm_initial' = 1
    /\ relative_norm' = <<1, 1>>
    /\ objective_value' = 1
    /\ stepsize' = 1
    /\ current_mesh_quality' = 2
    /\ converged' = FALSE
    /\ converged_reason' = 0
    /\ line_search_broken' = FALSE
    /\ requires_remeshing' = FALSE
    /\ remeshing_its' = FALSE
    /\ output_dict' = ResultManager_init(json_load(checkpoint_file), TRUE)
    /\ temp_dict' = json_load(checkpoint_file)
    /\ remesh_counter' = get(json_load(checkpoint_file), "remesh_counter", 0)
    /\ log' = <<>>
    /\ launch' = launch + 1
    /\ argv' = execv_args(argv, TempDir)
    /\ UNCHANGED <<checkpoint_file, captured, line_searches, norms>>
    /\ UNCHANGED <<dvars, mvars, ovars>>

NextSolver ==
    \/ run_begin
    \/ run_line_search
    \/ run_gradient
    \/ post_processing
    \/ relaunch


(***************************************************************************)
(* LBFGSMethod: the curvature memory                                       *)
(***************************************************************************)
\* controls and gradients are vectors with two integer components
Zero == <<0, 0>>

\* the gradients compute_gradient produces
Gradients == {<<2, 0>>, <<1, 0>>, <<0, 1>>, <<1, 1>>}

\* the directions the double loop produces from a non-empty memory
LoopDirections == {<<-1, 0>>, <<0, -1>>, <<1, 0>>}

\* the stepsizes the line search accepts
Stepsizes == {1, 2}

\* form_handler.scalar_product
scalar_product(a, b) == a[1] * b[1] + a[2] * b[2]

Minus(a, b) == <<a[1] - b[1], a[2] - b[2]>>
Scale(t, a) == <<t * a[1], t * a[2]>>

\* a wrong pop: the first (newest) entry is removed
pop_newest(h) == Tail(h)

\* deque.pop(): the sequence without its last (oldest) entry
pop(h) == SubSeq(h, 1, Len(h) - 1)

\* curvature / sqrt(ss * yy) <= 1e-14, for integer products with 0 < ss * yy < 10^28:
\* an integer curvature >= 1 gives a ratio above 1e-14
ratio_fails(curvature, ss, yy) == curvature <= 0

\* A wrong update: the memory is never trimmed
update_never_pops(m, g, gp, d, t, hs, hy, hr, flag) ==
    IF m > 0
    THEN LET y_k == Minus(g, gp)
             s_k == Scale(t, d)
             curvature == scalar_product(y_k, s_k)
             ss == scalar_product(s_k, s_k)
             yy == scalar_product(y_k, y_k)
         IN  IF ss * yy = 0
             THEN [history_s |-> <<s_k>> \o hs, history_y |-> <<y_k>> \o hy,
                   history_rho |-> hr,
                   has_curvature_info |-> TRUE, ret |-> "ZeroDivisionError"]
             ELSE IF ratio_fails(curvature, ss, yy)
             THEN [history_s |-> <<>>, history_y |-> <<>>, history_rho |-> <<>>,
                   has_curvature_info |-> FALSE, ret |-> "None"]
             ELSE [history_s |-> <<s_k>> \o hs, history_y |-> <<y_k>> \o hy,
                   history_rho |-> <<<<1, curvature>>>> \o hr,
                   has_curvature_info |-> TRUE, ret |-> "None"]
    ELSE [history_s |-> hs, history_y |-> hy, history_rho |-> hr,
          has_curvature_info |-> flag, ret |-> "None"]

\* A wrong update: a failed curvature test forgets the pairs but keeps their rho
update_keeps_rho(m, g, gp, d, t, hs, hy, hr, flag) ==
    IF m > 0
    THEN LET y_k == Minus(g, gp)
             s_k == Scale(t, d)
             hy1 == <<y_k>> \o hy
             hs1 == <<s_k>> \o hs
             curvature == scalar_product(y_k, s_k)
             ss == scalar_product(s_k, s_k)
             yy == scalar_product(y_k, y_k)
         IN  IF ss * yy = 0
             THEN [history_s |-> hs1, history_y |-> hy1, history_rho |-> hr,
                   has_curvature_info |-> TRUE, ret |-> "ZeroDivisionError"]
             ELSE IF ratio_fails(curvature, ss, yy)
             THEN [history_s |-> <<>>, history_y |-> <<>>, history_rho |-> hr,
                   has_curvature_info |-> FALSE, ret |-> "None"]
             ELSE LET hr1 == <<<<1, curvature>>>> \o hr IN
                  IF Len(hs1) > m
                  THEN [history_s |-> SubSeq(hs1, 1, Len(hs1) - 1),
                        history_y |-> SubSeq(hy1, 1, Len(hy1) - 1),
                        history_rho |-> SubSeq(hr1, 1, Len(hr1) - 1),
                        has_curvature_info |-> TRUE, ret |-> "None"]
                  ELSE [history_s |-> hs1, history_y |-> hy1, history_rho |-> hr1,
                        has_curvature_info |-> TRUE, ret |-> "None"]
    ELSE [history_s |-> hs, history_y |-> hy, history_rho |-> hr,
          has_curvature_info |-> flag, ret |-> "None"]

\* LBFGSMethod.update_hessian_approximation: the memory and the flag it leaves, and
\* how it ends. rho = 1 / curvature is the fraction <<1, curvature>>; with s_k or y_k
\* zero the ratio is 0/0, the test is false and 1 / curvature divides by zero after
\* the pair has been stored
update_result(m, g, gp, d, t, hs, hy, hr, flag) ==
    IF m > 0
    THEN LET y_k == Minus(g, gp)
             s_k == Scale(t, d)
             hy1 == <<y_k>> \o hy
             hs1 == <<s_k>> \o hs
             curvature == scalar_product(y_k, s_k)
             ss == scalar_product(s_k, s_k)
             yy == scalar_product(y_k, y_k)
         IN  IF ss * yy = 0
             THEN [history_s |-> hs1, history_y |-> hy1, history_rho |-> hr,
                   has_curvature_info |-> TRUE, ret |-> "ZeroDivisionError"]
             ELSE IF ratio_fails(curvature, ss, yy)
             THEN [history_s |-> <<>>, history_y |-> <<>>, history_rho |-> <<>>,
                   has_curvature_info |-> FALSE, ret |-> "None"]
             ELSE LET hr1 == <<<<1, curvature>>>> \o hr IN
                  IF Len(hs1) > m
                  THEN [history_s |-> pop(hs1), history_y |-> pop(hy1),
                        history_rho |-> pop(hr1),
                        has_curvature_info |-> TRUE, ret |-> "None"]
                  ELSE [history_s |-> hs1, history_y |-> hy1, history_rho |-> hr1,
                        has_curvature_info |-> TRUE, ret |-> "None"]
    ELSE [history_s |-> hs, history_y |-> hy, history_rho |-> hr,
          has_curvature_info |-> flag, ret |-> "None"]

\* no update_hessian_approximation call yet
NoUpdate ==
    [ret |-> "none", curvature |-> 0, ss |-> 0, yy |-> 0, before |-> 0, calls |-> 0]

\* LBFGSMethod.__init__ and _init_helpers, and the first gradient of run()
InitMemory ==
    /\ lbfgs_pc = "compute_search_direction"
    /\ bfgs_memory_size \in 0..MaxMem
    /\ gradient \in Gradients
    /\ gradient_prev = Zero
    /\ search_direction = Zero
    /\ history_s = <<>>
    /\ history_y = <<>>
    /\ history_rho = <<>>
    /\ has_curvature_info = FALSE
    /\ last_update = NoUpdate

\* LBFGSMethod.compute_search_direction
compute_search_direction ==
    /\ lbfgs_pc = "compute_search_direction"
    /\ iteration < MaxUpdates
    /\ search_direction' \in IF bfgs_memory_size > 0 /\ Len(history_s) > 0
                             THEN LoopDirections
                             ELSE {Scale(0 - 1, gradient)}
    /\ lbfgs_pc' = "check_for_ascent"
    /\ UNCHANGED <<bfgs_memory_size, gradient, gradient_prev, history_s, history_y,
                   history_rho, has_curvature_info, last_update>>
    /\ UNCHANGED <<dvars, rvars, ovars, iteration, stepsize, argv>>

\* a wrong guard: a direction orthogonal to the gradient is kept
ascent_guard_strict(g, d, flag) ==
    IF scalar_product(g, d) > 0
    THEN [search_direction |-> Scale(0 - 1, g), has_curvature_info |-> FALSE]
    ELSE [search_direction |-> d, has_curvature_info |-> flag]

\* check_for_ascent: the direction and the flag it leaves
ascent_guard(g, d, flag) ==
    LET directional_derivative == scalar_product(g, d)
    IN  IF directional_derivative >= 0
        THEN [search_direction |-> Scale(0 - 1, g), has_curvature_info |-> FALSE]
        ELSE [search_direction |-> d, has_curvature_info |-> flag]

\* OptimizationAlgorithm.check_for_ascent
check_for_ascent ==
    /\ lbfgs_pc = "check_for_ascent"
    /\ search_direction' = ascent_guard(gradient, search_direction,
                                        has_curvature_info).search_direction
    /\ has_curvature_info' = ascent_guard(gradient, search_direction,
                                          has_curvature_info).has_curvature_info
    /\ lbfgs_pc' = "line_search"
    /\ UNCHANGED <<bfgs_memory_size, gradient, gradient_prev, history_s, history_y,
                   history_rho, last_update>>
    /\ UNCHANGED <<dvars, rvars, ovars, iteration, stepsize, argv>>

\* line_search.perform and iteration += 1
line_search ==
    /\ lbfgs_pc = "line_search"
    /\ stepsize' \in Stepsizes
    /\ iteration' = iteration + 1
    /\ lbfgs_pc' = "compute_gradient"
    /\ UNCHANGED <<bfgs_memory_size, gradient, gradient_prev, search_direction,
                   history_s, history_y, history_rho, has_curvature_info, last_update>>
    /\ UNCHANGED <<dvars, rvars, ovars, argv>>

\* store_previous_gradient and compute_gradient
compute_gradient ==
    /\ lbfgs_pc = "compute_gradient"
    /\ gradient_prev' = IF bfgs_memory_size > 0 THEN gradient ELSE gradient_prev
    /\ gradient' \in Gradients
    /\ lbfgs_pc' = "update_hessian_approximation"
    /\ UNCHANGED <<bfgs_memory_size, search_direction, history_s, history_y,
                   history_rho, has_curvature_info, last_update>>
    /\ UNCHANGED <<dvars, rvars, ovars, iteration, stepsize, argv>>

\* LBFGSMethod.update_hessian_approximation
update_hessian_approximation ==
    /\ lbfgs_pc = "update_hessian_approximation"
    /\ LET r == update_result(bfgs_memory_size, gradient, gradient_prev,
                              search_direction, stepsize, history_s, history_y,
                              history_rho, has_curvature_info)
           y_k == Minus(gradient, gradient_prev)
           s_k == Scale(stepsize, search_direction)
       IN  /\ history_s' = r.history_s
           /\ history_y' = r.history_y
           /\ history_rho' = r.history_rho
           /\ has_curvature_info' = r.has_curvature_info
           /\ lbfgs_pc' = IF r.ret = "None" THEN "compute_search_direction" ELSE "raised"
           /\ last_update' = [ret |-> r.ret,
                              curvature |-> scalar_product(y_k, s_k),
                              ss |-> scalar_product(s_k, s_k),
                              yy |-> scalar_product(y_k, y_k),
                              before |-> Len(history_s),
                              calls |-> last_update.calls + 1]
    /\ UNCHANGED <<bfgs_memory_size, gradient, gradient_prev, search_direction>>
    /\ UNCHANGED <<dvars, rvars, ovars, iteration, stepsize, argv>>

NextMemory ==
    \/ compute_search_direction
    \/ check_for_ascent
    \/ line_search
    \/ compute_gradient
    \/ update_hessian_approximation


(***************************************************************************)
(* _MeshHandler: construction, a priori test, move_mesh                    *)
(***************************************************************************)
ShapeCoords == [Vertices -> 0..MaxShapeCoord]

\* the meshes a shape problem starts from
ShapeMeshes == {x \in ShapeCoords : collisions_match(x) /\ x[1] < x[2]}

\* qualities are whole multiples of 1 / QualityScale
QualityScale == 6

\* compute_mesh_quality: the quality of a mesh is the length of its shortest cell
\* over the length of its longest cell (0 for a mesh with coinciding vertices)
compute_mesh_quality(x) ==
    LET len(c) == IF x[c[2]] >= x[c[1]] THEN x[c[2]] - x[c[1]] ELSE x[c[1]] - x[c[2]]
        shortest == CHOOSE q \in {len(c) : c \in Cells} : \A c \in Cells : q <= len(c)
        longest == CHOOSE q \in {len(c) : c \in Cells} : \A c \in Cells : q >= len(c)
    IN  IF longest = 0 THEN 0 ELSE (QualityScale * shortest) \div longest

\* float(config.get("MeshQuality", "volume_change", fallback="inf"))
Unbounded == [inf |-> TRUE, v |-> 0]
Finite(v) == [inf |-> FALSE, v |-> v]

\* the [MeshQuality] sections a handler is constructed from
MeshConfigs ==
    {cfg \in [volume_change : {Unbounded, Finite(2)},
              tol_lower : {0, 4, 7}, tol_upper : {4, 7},
              remesh_iter : {0, 1}] :
        cfg.remesh_iter = 0 \/ (cfg.volume_change = Unbounded /\ cfg.tol_lower = 0)}

\* a wrong test: equal tolerances are let through
tolerances_compatible_equal(cfg) == cfg.tol_lower <= cfg.tol_upper

\* _MeshHandler.__init__: tol_lower has to be strictly smaller than tol_upper
tolerances_compatible(cfg) == cfg.tol_lower < cfg.tol_upper

\* _MeshHandler.__test_a_priori: min_det >= 1 / volume_change and
\* max_det <= volume_change, the determinant on a cell being new length / old length
\* (both sides multiplied by the square of the old length); 1 / inf is 0
mesh_handler_test_a_priori(x, u, vc) ==
    \A c \in Cells :
        LET old == x[c[2]] - x[c[1]]
            new == (x[c[2]] + u[c[2]]) - (x[c[1]] + u[c[1]])
        IN  IF vc.inf
            THEN new * old >= 0
            ELSE new * old * vc.v >= old * old /\ new * old <= vc.v * old * old

\* _MeshHandler.move_mesh: the a priori test, then DeformationHandler.move_mesh with
\* validated_a_priori=True and the quality of the mesh it leaves
mesh_handler_move_mesh(x, old, u, quality, vc) ==
    IF ~mesh_handler_test_a_priori(x, u, vc)
    THEN [coordinates |-> x, old_coordinates |-> old, ret |-> "False", writes |-> 0,
          event |-> "none", quality |-> quality, a_priori |-> FALSE]
    ELSE LET r == move_mesh_result(x, old, u, TRUE) IN
         [coordinates |-> r.coordinates, old_coordinates |-> r.old_coordinates,
          ret |-> r.ret, writes |-> r.writes, event |-> r.event,
          quality |-> compute_mesh_quality(r.coordinates), a_priori |-> TRUE]

(***************************************************************************)
(* ShapeVariableAbstractions: requires_remeshing and the trial loop        *)
(***************************************************************************)
\* A wrong trigger: the periodic criterion also fires at iteration 0
requires_remeshing_at_start(quality, it, cfg) ==
    quality < cfg.tol_upper \/ (cfg.remesh_iter > 0 /\ it % cfg.remesh_iter = 0)

\* ShapeVariableAbstractions.requires_remeshing
requires_remeshing_now(quality, it, cfg) ==
    LET mesh_quality_criterion == quality < cfg.tol_upper
        iteration_criterion == IF cfg.remesh_iter > 0
                               THEN it > 0 /\ it % cfg.remesh_iter = 0
                               ELSE FALSE
    IN  mesh_quality_criterion \/ iteration_criterion

\* beta of the line search
Beta == 2

\* stepsize /= beta, on stepsizes that are whole numbers (1 / beta underflows to 0)
reduce(t) == t \div Beta

\* the search directions and the stepsizes a line search starts with
ShapeDirections == [Vertices -> {0 - 1, 0, 1}]
InitialStepsizes == {1, 2}

\* stepsize * search_direction
scaled(t, d) == [v \in Vertices |-> t * d[v]]

\* a wrong quality test: no mesh is of too low a quality
quality_never_too_low(quality, cfg) == FALSE

\* current_mesh_quality < mesh_quality_tol_lower
quality_too_low(quality, cfg) == quality < cfg.tol_lower

\* the stepsizes compute_step hands back for a trial stepsize t when the projection
\* leaves the trial point where it is: t itself, or a smaller root of the margin
computed_stepsizes(t) == 0..t

NoTrial == [stepsize |-> 0, passed_in |-> 0, start |-> NoArg, rejected |-> 0, parity |-> 0,
            constrained |-> FALSE, computed |-> 0, undone |-> 0]
NoMove == [a_priori |-> FALSE, ret |-> "none", pre |-> NoArg, arg |-> NoArg, writes |-> 0,
           reverted |-> FALSE]

\* no mesh handler has been constructed
ShapeIdle ==
    /\ shape_pc = "none"
    /\ mesh_config = [volume_change |-> Unbounded, tol_lower |-> 0, tol_upper |-> 4,
                      remesh_iter |-> 0]
    /\ shape_direction = NoArg
    /\ trial = NoTrial
    /\ last_move = NoMove
    /\ qualities = <<>>

\* a shape problem before its mesh handler is constructed
InitShape ==
    /\ shape_pc = "construct"
    /\ mesh_config \in MeshConfigs
    /\ shape_direction = NoArg
    /\ trial = NoTrial
    /\ last_move = NoMove
    /\ qualities = <<>>
    /\ coordinates \in {x \in ShapeMeshes : x[1] = 0}
    /\ old_coordinates = coordinates
    /\ last_call = [op |-> "__init__", arg |-> NoArg, validated |-> FALSE,
                    pre |-> coordinates, ret |-> "None", writes |-> 0]
    /\ snapshot_event = "__init__"

\* _MeshHandler.__init__
MeshHandler_init ==
    /\ shape_pc = "construct"
    /\ IF tolerances_compatible(mesh_config)
       THEN /\ shape_pc' = "idle"
            /\ current_mesh_quality' = compute_mesh_quality(coordinates)
       ELSE /\ shape_pc' = "raised"
            /\ UNCHANGED current_mesh_quality
    /\ UNCHANGED <<mesh_config, shape_direction, trial, last_move, qualities>>
    /\ UNCHANGED <<dvars, qvars, mvars, xvars, iteration, stepsize, requires_remeshing>>

\* the line search calls update_optimization_variables(search_direction, stepsize, beta)
begin_update ==
    /\ shape_pc = "idle"
    /\ iteration < MaxLineSearches
    /\ \E d \in ShapeDirections, t \in InitialStepsizes, constrained \in BOOLEAN :
          /\ \A k \in 0..t : add(coordinates, scaled(k, d)) \in ShapeCoords
          /\ shape_direction' = d
          /\ trial' = [stepsize |-> t, passed_in |-> t, start |-> coordinates,
                       rejected |-> 0, parity |-> 0, constrained |-> constrained,
                       computed |-> t, undone |-> 0]
    /\ shape_pc' = "trial"
    /\ UNCHANGED <<mesh_config, last_move, qualities>>
    /\ UNCHANGED <<dvars, svars, mvars, xvars>>

\* one pass of the loop of update_optimization_variables and of
\* update_constrained_optimization_variables (which first takes the stepsize of
\* compute_step)
update_trial ==
    /\ shape_pc = "trial"
    /\ \E t \in (IF trial.constrained THEN computed_stepsizes(trial.stepsize)
                  ELSE {trial.stepsize}) :
          \E u \in {scaled(t, shape_direction)} :
          \E m \in {mesh_handler_move_mesh(coordinates, old_coordinates, u,
                                           current_mesh_quality, mesh_config.volume_change)} :
          \E low \in {m.ret = "True" /\ quality_too_low(m.quality, mesh_config)} :
          \E rv \in {revert(m.coordinates, m.old_coordinates)} :
              /\ current_mesh_quality' = m.quality
              /\ coordinates' = IF low THEN rv.coordinates ELSE m.coordinates
              /\ old_coordinates' = IF low THEN rv.old_coordinates ELSE m.old_coordinates
              /\ snapshot_event' = IF low THEN rv.event
                                   ELSE IF m.event = "none" THEN snapshot_event ELSE m.event
              /\ last_call' = IF low THEN Call("revert_transformation", NoArg, FALSE,
                                               m.coordinates, rv)
                              ELSE IF m.a_priori THEN Call("move_mesh", u, TRUE, coordinates, m)
                              ELSE last_call
              /\ last_move' = [a_priori |-> m.a_priori, ret |-> m.ret, pre |-> coordinates,
                               arg |-> u, writes |-> m.writes, reverted |-> low]
              /\ IF m.ret = "True" /\ ~low
                 THEN /\ shape_pc' = "returned"
                      /\ trial' = [trial EXCEPT !.stepsize = t, !.computed = t,
                                                !.parity = 1 - @]
                 ELSE /\ shape_pc' = "trial"
                      /\ trial' = [trial EXCEPT !.stepsize = reduce(t), !.computed = t,
                                                !.rejected = IF t = 0 THEN @ ELSE @ + 1,
                                                !.undone = IF low /\ t # 0 THEN @ + 1 ELSE @,
                                                !.parity = 1 - @]
    /\ UNCHANGED <<mesh_config, shape_direction, qualities>>
    /\ UNCHANGED <<qvars, mvars, xvars, iteration, stepsize, requires_remeshing>>

\* the line search takes the stepsize returned and asks requires_remeshing(); run()
\* counts the iteration
end_update ==
    /\ shape_pc = "returned"
    /\ stepsize' = trial.stepsize
    /\ requires_remeshing' = requires_remeshing_now(current_mesh_quality, iteration,
                                                    mesh_config)
    /\ iteration' = iteration + 1
    /\ qualities' = Append(qualities, current_mesh_quality)
    /\ shape_pc' = IF requires_remeshing' THEN "remesh" ELSE "idle"
    /\ UNCHANGED <<mesh_config, shape_direction, trial, last_move>>
    /\ UNCHANGED <<dvars, qvars, mvars, xvars, current_mesh_quality>>

\* the line search rejects the returned step: revert_variable_update, which is
\* _MeshHandler.revert_transformation
revert_variable_update ==
    /\ shape_pc = "returned"
    /\ \E rv \in {revert(coordinates, old_coordinates)} :
          /\ coordinates' = rv.coordinates
          /\ old_coordinates' = rv.old_coordinates
          /\ last_call' = Call("revert_transformation", NoArg, FALSE, coordinates, rv)
          /\ snapshot_event' = IF rv.event = "none" THEN snapshot_event ELSE rv.event
    /\ shape_pc' = "idle"
    /\ UNCHANGED <<mesh_config, shape_direction, trial, last_move, qualities>>
    /\ UNCHANGED <<svars, mvars, xvars>>

NextShape ==
    \/ MeshHandler_init
    \/ begin_update
    \/ update_trial
    \/ end_update
    \/ revert_variable_update

(***************************************************************************)
(* The constraint manager, project_to_working_set and compute_step         *)
(***************************************************************************)
\* the ranks of the communicator; each rank owns one degree of freedom and the
\* constraint on it
Ranks == {1, 2}
Points == [Ranks -> 0..MaxPoint]

\* constraint k is y[k] - Limit <= 0
Limit == 2
ConstraintTol == 0

\* constraint_manager.evaluate: the signed values of the constraints
evaluate(y) == [k \in Ranks |-> y[k] - Limit]

\* constraint_manager.compute_active_set: the constraints that bind within the tolerance
compute_active_set(y) ==
    [k \in Ranks |-> evaluate(y)[k] <= ConstraintTol /\ evaluate(y)[k] >= 0 - ConstraintTol]

\* constraint_manager.is_feasible, reduced over the ranks
is_feasible(y) == \A k \in Ranks : evaluate(y)[k] <= ConstraintTol

\* a wrong test: only the first rank's flag is looked at
satisfies_on_first_rank(y, active_idx) ==
    \A k \in active_idx \cap {1} : compute_active_set(y)[k]

\* satisfies_previous_constraints: np.all of the local masks, allgather, np.all
satisfies_previous_constraints(y, active_idx) ==
    LET satisfies_previous_constraints_local(r) ==
            \A k \in active_idx \cap {r} : compute_active_set(y)[k]
    IN  \A r \in Ranks : satisfies_previous_constraints_local(r)

\* y_j = coords_dof + stepsize * search_direction_dof
trial_point(coords, direction, t) == [k \in Ranks |-> coords[k] + t * direction[k]]

\* y_j after the correction: the solve of the multiplier system is exact or inexact,
\* and moves only the degrees of freedom of the working set
corrections(y, active_idx) ==
    {z \in Points : \A k \in Ranks \ active_idx : z[k] = y[k]}

\* for i in range(10)
RetryBound == 10

NoProjection == [pc |-> "none", y |-> [k \in Ranks |-> 0], i |-> 0, stepsize |-> 0]

\* project_to_working_set is entered
project_call(coords, direction, t) ==
    [pc |-> "loop", y |-> trial_point(coords, direction, t), i |-> 0, stepsize |-> t]

\* a wrong feasibility test: every trial step is taken as feasible
always_feasible(y) == TRUE

\* not np.all(is_feasible(trial_step)): the root of the margin has to be found
trial_step_feasible(y) == is_feasible(y)

\* stepsize /= 2.0
halve(t) == t \div 2

NoStep == [pc |-> "none", coords |-> [k \in Ranks |-> 0], direction |-> [k \in Ranks |-> 0],
           passed_in |-> 0, stepsize |-> 0, active_idx |-> {}, dropped_idx |-> {},
           feasible_step |-> [k \in Ranks |-> 0], feasible_stepsize |-> 0,
           error |-> "none", halvings |-> 0]

NoRank == [pc |-> "none", stepsize |-> 0, i |-> 0, phase |-> "trial", none |-> FALSE,
           root |-> 0, error |-> "none"]
NoShared == [coords |-> [k \in Ranks |-> 0], direction |-> [k \in Ranks |-> 0],
             active_idx |-> {}, dropped_idx |-> {}, y |-> [k \in Ranks |-> 0]]

\* no rank is inside compute_step
RanksIdle == rank = [r \in Ranks |-> NoRank] /\ shared = NoShared

\* no projection is under way
ConstraintIdle == projection = NoProjection /\ step = NoStep /\ RanksIdle

\* compute_step is called at a feasible point, the working set and the dropped set
\* being disjoint sets of constraints that bind there
InitStep ==
    /\ projection = NoProjection
    /\ \E coords \in {y \in Points : is_feasible(y)}, direction \in [Ranks -> {0, 1}],
          t \in {1, 2}, active_idx \in SUBSET Ranks, dropped_idx \in SUBSET Ranks :
          /\ active_idx \cap dropped_idx = {}
          /\ \A k \in active_idx \cup dropped_idx : compute_active_set(coords)[k]
          /\ step = [NoStep EXCEPT !.pc = "called", !.coords = coords,
                                   !.direction = direction, !.passed_in = t,
                                   !.stepsize = t, !.active_idx = active_idx,
                                   !.dropped_idx = dropped_idx]

\* compute_step up to its first call of project_to_working_set
compute_step_begin ==
    /\ step.pc = "called"
    /\ projection' = project_call(step.coords, step.direction, step.stepsize)
    /\ step' = [step EXCEPT !.pc = "trial"]
    /\ UNCHANGED <<dvars, svars, mvars, hvars, snes, kvars, remeshing>>

\* one pass of the loop of project_to_working_set: the working set is satisfied on
\* every rank and y_j is returned, or y_j is corrected (the iterative solve may
\* fail); None is returned after the last pass
project_pass ==
    /\ projection.pc = "loop"
    /\ IF satisfies_previous_constraints(projection.y, step.active_idx)
       THEN projection' = [projection EXCEPT !.pc = "returned"]
       ELSE \/ projection' = [projection EXCEPT !.pc = "raised"]
            \/ \E z \in corrections(projection.y, step.active_idx) :
                  projection' = [projection EXCEPT
                                    !.y = z, !.i = @ + 1,
                                    !.pc = IF projection.i + 1 = RetryBound
                                           THEN "returned None" ELSE "loop"]
    /\ UNCHANGED <<dvars, svars, mvars, hvars, snes, step, kvars, remeshing>>

\* compute_step after a projection of the trial stepsize: None halves the stepsize
\* and projects again; a feasible trial step is returned; otherwise root_scalar finds
\* a stepsize in the bracket (or raises) and that stepsize is projected
compute_step_trial ==
    /\ step.pc = "trial"
    /\ \/ /\ projection.pc = "raised"
          /\ step' = [step EXCEPT !.pc = "raised", !.error = "NotConvergedError"]
          /\ UNCHANGED projection
       \/ /\ projection.pc = "returned None"
          /\ step' = [step EXCEPT !.stepsize = halve(@),
                                  !.halvings = IF step.stepsize = 0 THEN @ ELSE @ + 1]
          /\ projection' = project_call(step.coords, step.direction, halve(step.stepsize))
       \/ /\ projection.pc = "returned"
          /\ trial_step_feasible(projection.y)
          /\ step' = [step EXCEPT !.pc = "returned", !.feasible_step = projection.y,
                                  !.feasible_stepsize = step.stepsize]
          /\ UNCHANGED projection
       \/ /\ projection.pc = "returned"
          /\ ~trial_step_feasible(projection.y)
          /\ \/ /\ step' = [step EXCEPT !.pc = "raised", !.error = "ValueError"]
                /\ UNCHANGED projection
             \/ \E root \in 0..step.stepsize :
                   /\ step' = [step EXCEPT !.pc = "final", !.feasible_stepsize = root]
                   /\ projection' = project_call(step.coords, step.direction, root)
    /\ UNCHANGED <<dvars, svars, mvars, hvars, snes, kvars, remeshing>>

\* compute_step after the projection of the feasible stepsize: the assert
compute_step_final ==
    /\ step.pc = "final"
    /\ projection.pc \in {"raised", "returned None", "returned"}
    /\ step' = IF projection.pc = "raised"
               THEN [step EXCEPT !.pc = "raised", !.error = "NotConvergedError"]
               ELSE IF projection.pc = "returned None"
               THEN [step EXCEPT !.pc = "raised", !.error = "TypeError"]
               ELSE IF ~is_feasible(projection.y)
               THEN [step EXCEPT !.pc = "raised", !.error = "AssertionError"]
               ELSE [step EXCEPT !.pc = "returned", !.feasible_step = projection.y]
    /\ UNCHANGED <<dvars, svars, mvars, hvars, snes, projection, kvars, remeshing>>

NextStep ==
    \/ compute_step_begin
    \/ project_pass
    \/ compute_step_trial
    \/ compute_step_final

(***************************************************************************)
(* compute_step and project_to_working_set rank by rank: every rank runs   *)
(* the same code on its part of the distributed arrays and meets the       *)
(* others in the collective operations                                     *)
(***************************************************************************)
\* the collective operations of compute_step, named by where a rank waits in them
Collectives ==
    {"barrier_before", "allgather", "ksp_solve", "barrier_after", "is_feasible",
     "root_scalar", "allreduce", "assert_is_feasible"}

\* np.all(compute_active_set(y_j)[active_idx]) on the constraints rank r owns
satisfies_previous_constraints_local(r, y, active_idx) ==
    \A k \in active_idx \cap {r} : compute_active_set(y)[k]

\* comm.allgather: every rank receives the values of all ranks
allgather(values) == values

\* a wrong decision: a rank looks at its own flag only
rank_satisfies_locally(r, y, active_idx) ==
    satisfies_previous_constraints_local(r, y, active_idx)

\* the flag rank r branches on: np.all of the gathered flags
rank_satisfies(r, y, active_idx) ==
    LET gathered == allgather([q \in Ranks |->
                                  satisfies_previous_constraints_local(q, y, active_idx)])
    IN  \A q \in Ranks : gathered[q]

\* np.all(constraint_manager.is_feasible(...)) as rank r evaluates it
rank_is_feasible(r, y) == is_feasible(y)

\* comm.allreduce(value, op=MPI.MIN)
RECURSIVE MinOver(_, _)
MinOver(values, S) ==
    IF S = {} THEN MaxPoint
    ELSE LET q == CHOOSE q \in S : TRUE
             rest == MinOver(values, S \ {q})
         IN  IF values[q] <= rest THEN values[q] ELSE rest

allreduce_min(values) == MinOver(values, Ranks)

\* every rank has entered the collective operation op
AllIn(op) == \A r \in Ranks : rank[r].pc = op

\* all ranks call compute_step with the same distributed arguments
InitRanks ==
    \E coords \in {y \in Points : is_feasible(y)}, direction \in [Ranks -> {0, 1}],
       t \in {1, 2}, active_idx \in SUBSET Ranks, dropped_idx \in SUBSET Ranks :
       /\ active_idx \cap dropped_idx = {}
       /\ \A k \in active_idx \cup dropped_idx : compute_active_set(coords)[k]
       /\ shared = [coords |-> coords, direction |-> direction, active_idx |-> active_idx,
                    dropped_idx |-> dropped_idx, y |-> coords]
       /\ rank = [r \in Ranks |-> [NoRank EXCEPT !.pc = "barrier_before", !.stepsize = t]]

\* a rank enters project_to_working_set: the first pass of its loop
enter_projection(st) == [st EXCEPT !.pc = "allgather", !.i = 0, !.none = FALSE]

\* comm.barrier() before the projection of the trial step; every rank then forms
\* y_j = coords_dof + stepsize * search_direction_dof from its own stepsize
barrier_before ==
    /\ AllIn("barrier_before")
    /\ rank' = [r \in Ranks |-> enter_projection(rank[r])]
    /\ shared' = [shared EXCEPT
                     !.y = [k \in Ranks |->
                               shared.coords[k] + rank[k].stepsize * shared.direction[k]]]
    /\ UNCHANGED <<dvars, svars, mvars, hvars, snes, cvars, remeshing>>

\* where a rank goes when its projection returns (a value, or None)
after_projection(st, none) ==
    IF st.phase = "trial" THEN [st EXCEPT !.pc = "barrier_after", !.none = none]
    ELSE IF none THEN [st EXCEPT !.pc = "raised", !.error = "TypeError", !.none = TRUE]
    ELSE [st EXCEPT !.pc = "assert_is_feasible"]

\* the allgather of the flags at the top of a pass: a rank returns y_j or goes on to
\* the correction
allgather_flags ==
    /\ AllIn("allgather")
    /\ rank' = [r \in Ranks |->
                  IF rank_satisfies(r, shared.y, shared.active_idx)
                  THEN after_projection(rank[r], FALSE)
                  ELSE [rank[r] EXCEPT !.pc = "ksp_solve"]]
    /\ UNCHANGED <<dvars, svars, mvars, hvars, snes, cvars, remeshing, shared>>

\* ksp.solve on the communicator: the reason is the same on every rank; a negative
\* reason raises, otherwise y_j is corrected and the pass ends
ksp_solve ==
    /\ AllIn("ksp_solve")
    /\ \/ /\ rank' = [r \in Ranks |->
                        [rank[r] EXCEPT !.pc = "raised", !.error = "NotConvergedError"]]
          /\ UNCHANGED shared
       \/ \E z \in corrections(shared.y, shared.active_idx) :
             /\ shared' = [shared EXCEPT !.y = z]
             /\ rank' = [r \in Ranks |->
                           IF rank[r].i + 1 = RetryBound
                           THEN after_projection([rank[r] EXCEPT !.i = @ + 1], TRUE)
                           ELSE [rank[r] EXCEPT !.i = @ + 1, !.pc = "allgather"]]
    /\ UNCHANGED <<dvars, svars, mvars, hvars, snes, cvars, remeshing>>

\* comm.barrier() after the projection: None halves the stepsize and starts over
barrier_after ==
    /\ AllIn("barrier_after")
    /\ rank' = [r \in Ranks |->
                  IF rank[r].none
                  THEN [rank[r] EXCEPT !.pc = "barrier_before", !.stepsize = halve(@)]
                  ELSE [rank[r] EXCEPT !.pc = "is_feasible"]]
    /\ UNCHANGED <<dvars, svars, mvars, hvars, snes, cvars, remeshing, shared>>

\* if not np.all(is_feasible(trial_step)): a rank returns the trial step or looks for
\* the root of the margin
feasibility_test ==
    /\ AllIn("is_feasible")
    /\ rank' = [r \in Ranks |->
                  IF rank_is_feasible(r, shared.y)
                  THEN [rank[r] EXCEPT !.pc = "returned"]
                  ELSE [rank[r] EXCEPT !.pc = "root_scalar"]]
    /\ UNCHANGED <<dvars, svars, mvars, hvars, snes, cvars, remeshing, shared>>

\* optimize.root_scalar(func, bracket=(0.0, stepsize)): func projects and reduces the
\* margin with MPI.MAX, so every rank sees the same values; the bracket may be
\* refused, otherwise each rank holds a root
root_scalar ==
    /\ AllIn("root_scalar")
    /\ \/ rank' = [r \in Ranks |-> [rank[r] EXCEPT !.pc = "raised", !.error = "ValueError"]]
       \/ \E roots \in [Ranks -> 0..MaxPoint] :
             /\ \A r \in Ranks : roots[r] <= rank[r].stepsize
             /\ rank' = [r \in Ranks |-> [rank[r] EXCEPT !.pc = "allreduce",
                                                          !.root = roots[r]]]
    /\ UNCHANGED <<dvars, svars, mvars, hvars, snes, cvars, remeshing, shared>>

\* feasible_stepsize = comm.allreduce(root, op=MPI.MIN), then the projection of the
\* step of that size
allreduce_feasible_stepsize ==
    /\ AllIn("allreduce")
    /\ \E m \in {allreduce_min([r \in Ranks |-> rank[r].root])} :
          /\ rank' = [r \in Ranks |->
                        enter_projection([rank[r] EXCEPT !.stepsize = m, !.phase = "final"])]
          /\ shared' = [shared EXCEPT !.y = trial_point(shared.coords, shared.direction, m)]
    /\ UNCHANGED <<dvars, svars, mvars, hvars, snes, cvars, remeshing>>

\* assert np.all(is_feasible(feasible_step)), then return
feasibility_assert ==
    /\ AllIn("assert_is_feasible")
    /\ rank' = [r \in Ranks |->
                  IF rank_is_feasible(r, shared.y)
                  THEN [rank[r] EXCEPT !.pc = "returned"]
                  ELSE [rank[r] EXCEPT !.pc = "raised", !.error = "AssertionError"]]
    /\ UNCHANGED <<dvars, svars, mvars, hvars, snes, cvars, remeshing, shared>>

NextRanks ==
    \/ barrier_before
    \/ allgather_flags
    \/ ksp_solve
    \/ barrier_after
    \/ feasibility_test
    \/ root_scalar
    \/ allreduce_feasible_stepsize
    \/ feasibility_assert

(***************************************************************************)
(* _MeshHandler.remesh and the relaunch, rank by rank: every rank runs     *)
(* remesh() on the same paths and replaces itself with os.execv            *)
(***************************************************************************)
NotRead == [checkpoint |-> "not read", mesh |-> "not read"]

NoRemeshing ==
    [pos |-> [r \in Ranks |-> 0], read |-> [r \in Ranks |-> NotRead],
     checkpoint |-> "none", mesh |-> "none", started |-> FALSE]

\* no rank is remeshing
RemeshIdle == remeshing = NoRemeshing

\* post_processing calls remesh() on every rank
InitRemeshing == remeshing = [NoRemeshing EXCEPT !.started = TRUE]

\* temp_dict.json after a step: open(..., "w") truncates it, json.dump fills it, and
\* it is whole when a writer has closed it
checkpoint_after(op, file) ==
    IF op = "open temp_dict.json" THEN "empty"
    ELSE IF op = "json.dump" THEN (IF file = "empty" THEN "partial" ELSE file)
    ELSE IF op = "close temp_dict.json" THEN "complete"
    ELSE file

\* the new mesh file after a step: cashocs-convert writes it, and it is whole once
\* the command has returned and the rank goes on
mesh_after(op, file) ==
    IF op = "cashocs-convert" THEN "partial"
    ELSE IF op = "rm" THEN "complete"
    ELSE file

\* rank r has replaced itself with the relaunched process
Relaunched(r) == remeshing.pos[r] = Len(remesh_steps)

\* rank r takes its next step of remesh(); nothing in remesh() waits for another rank
remesh_rank_step(r) ==
    /\ remeshing.started
    /\ remeshing.pos[r] < Len(remesh_steps)
    /\ \E op \in {remesh_steps[remeshing.pos[r] + 1]} :
          remeshing' = [remeshing EXCEPT
                           !.pos[r] = @ + 1,
                           !.checkpoint = checkpoint_after(op, @),
                           !.mesh = mesh_after(op, @)]
    /\ UNCHANGED <<dvars, svars, mvars, hvars, snes, cvars, kvars>>

\* import_mesh of the relaunched rank r: json.load of temp_dict.json, then the mesh
\* file it names
import_mesh(r) ==
    /\ Relaunched(r)
    /\ remeshing.read[r] = NotRead
    /\ remeshing' = [remeshing EXCEPT
                        !.read[r] = [checkpoint |-> remeshing.checkpoint,
                                     mesh |-> IF remeshing.checkpoint = "complete"
                                              THEN remeshing.mesh ELSE "not read"]]
    /\ UNCHANGED <<dvars, svars, mvars, hvars, snes, cvars, kvars>>

NextRemeshing ==
    \/ \E r \in Ranks : remesh_rank_step(r)
    \/ \E r \in Ranks : import_mesh(r)

(***************************************************************************)
(* SNESSolver.solve and snes_solve                                         *)
(***************************************************************************)
\* the values of a solution vector
Iterates == 0..2

\* SNESSolver.__init__: the default options (which do not ask the backend to raise
\* on divergence) or the ones the caller gives
SnesOptions ==
    {o \in [given : BOOLEAN, snes_error_if_not_converged : BOOLEAN] :
        ~o.given => ~o.snes_error_if_not_converged}

\* the reasons the backend reports: positive for a converged solve (fnorm_abs,
\* fnorm_relative, snorm_relative), negative for a diverged one (linear solve failed,
\* max_it, line search failed)
SnesReasons == {2, 3, 4, 0 - 3, 0 - 5, 0 - 6}

NoSolver == [pc |-> "none", options |-> [given |-> FALSE,
                                         snes_error_if_not_converged |-> FALSE],
             u |-> 0, it |-> 0, reason |-> 0, error |-> "none", result |-> 0]

\* no nonlinear problem is being solved
SnesIdle == snes = NoSolver

\* snes_solve up to solver.solve(): the SNESSolver is constructed around u
InitSnes ==
    \E o \in SnesOptions, u \in Iterates :
        snes = [NoSolver EXCEPT !.pc = "constructed", !.options = o, !.u = u]

\* SNESSolver.solve up to snes.solve(): the SNES object is created and set up
snes_setup ==
    /\ snes.pc = "constructed"
    /\ snes' = [snes EXCEPT !.pc = "solving"]
    /\ UNCHANGED <<dvars, svars, mvars, hvars, cvars, kvars, remeshing>>

\* the backend calls assemble_function and assemble_jacobian for a new iterate x;
\* both write x into self.u
assemble ==
    /\ snes.pc = "solving"
    /\ snes.it < MaxSnesIt
    /\ \E x \in Iterates : snes' = [snes EXCEPT !.u = x, !.it = @ + 1]
    /\ UNCHANGED <<dvars, svars, mvars, hvars, cvars, kvars, remeshing>>

\* snes.solve() ends with the backend's reason, the last iterate in self.u; the
\* backend raises its own error for a diverged solve when
\* snes_error_if_not_converged is set, otherwise solve() returns self.u
solve_end ==
    /\ snes.pc = "solving"
    /\ \E r \in SnesReasons :
          /\ r = 0 - 5 => snes.it = MaxSnesIt
          /\ snes' = IF r < 0 /\ snes.options.snes_error_if_not_converged
                     THEN [snes EXCEPT !.pc = "raised", !.reason = r,
                                       !.error = "PETSc.Error"]
                     ELSE [snes EXCEPT !.pc = "returned", !.reason = r, !.result = snes.u]
    /\ UNCHANGED <<dvars, svars, mvars, hvars, cvars, kvars, remeshing>>

NextSnes ==
    \/ snes_setup
    \/ assemble
    \/ solve_end

(***************************************************************************)
(* Specifications                                                          *)
(***************************************************************************)
\* neither a nonlinear solve nor a projection is under way
ExtrasIdle == SnesIdle /\ ConstraintIdle /\ RemeshIdle

\* the handler alone: the solver process stays as constructed
SolverIdle ==
    Construct([maximum_iterations |-> 2, soft_exit |-> FALSE, do_remesh |-> FALSE,
               atol |-> 0, rtol |-> <<1, 2>>], NoTempDict, FALSE)
    /\ checkpoint_file = <<>> /\ launch = 0 /\ captured = <<>>
    /\ line_searches = 0 /\ norms = <<>>
    /\ argv = <<"script.py">>

\* the curvature memory before the loop is entered
MemoryIdle ==
    InitMemory /\ bfgs_memory_size = 0 /\ gradient = <<1, 0>>

\* a handler has been constructed; no solver runs
InitHandlerOnly == InitDeformation /\ SolverIdle /\ MemoryIdle /\ ShapeIdle /\ ExtrasIdle

SpecDeformation == InitHandlerOnly /\ [][NextDeformation]_vars

\* the handler as constructed, while the solver process runs
DeformationIdle ==
    /\ coordinates = [v \in Vertices |-> v]
    /\ old_coordinates = coordinates
    /\ last_call = [op |-> "__init__", arg |-> NoArg, validated |-> FALSE,
                    pre |-> coordinates, ret |-> "None", writes |-> 0]
    /\ snapshot_event = "__init__"

Init == InitSolver /\ DeformationIdle /\ MemoryIdle /\ ShapeIdle /\ ExtrasIdle

Spec == Init /\ [][NextSolver]_vars

\* the solver process when every gradient computation and every line search returns
SpecRunFair ==
    Init /\ [][NextSolver]_vars
         /\ WF_vars(run_begin) /\ WF_vars(run_line_search) /\ WF_vars(run_gradient)

\* the L-BFGS loop at the level of the gradients and the curvature memory
InitLoop == InitMemory /\ SolverIdle /\ DeformationIdle /\ ShapeIdle /\ ExtrasIdle

SpecMemory == InitLoop /\ [][NextMemory]_vars

\* the command lines of a first launch: the script and at most MaxArgs arguments
RECURSIVE CommandLines(_)
CommandLines(n) ==
    IF n = 0 THEN {<<"script.py">>}
    ELSE CommandLines(n - 1)
         \cup {Append(l, t) : l \in {k \in CommandLines(n - 1) : Len(k) = n}, t \in Tokens}

\* a process with remeshing enabled, started with any command line
InitArgv ==
    /\ Construct([maximum_iterations |-> 2, soft_exit |-> FALSE, do_remesh |-> TRUE,
                  atol |-> 0, rtol |-> <<1, 2>>], FirstTempDict, FALSE)
    /\ checkpoint_file = <<>> /\ launch = 0 /\ captured = <<>>
    /\ line_searches = 0 /\ norms = <<>>
    /\ argv \in CommandLines(MaxArgs)
    /\ DeformationIdle
    /\ MemoryIdle
    /\ ShapeIdle
    /\ ExtrasIdle

\* the end of remesh(): filter_sys_argv and os.execv, seen from the command line
execv ==
    /\ pc = "run"
    /\ launch < MaxRemesh + 1
    /\ IF filter_sys_argv(argv, TempDir).ret = "InputError"
       THEN /\ pc' = "raised"
            /\ UNCHANGED <<argv, launch>>
       ELSE /\ pc' = "run"
            /\ argv' = execv_args(argv, TempDir)
            /\ launch' = launch + 1
    /\ UNCHANGED <<config, iteration, gradient_norm, gradient_norm_initial, relative_norm,
                   objective_value, stepsize, current_mesh_quality, converged,
                   converged_reason, line_search_broken, requires_remeshing,
                   remeshing_its, output_dict, temp_dict, remesh_counter,
                   checkpoint_file, log, captured, line_searches, norms>>
    /\ UNCHANGED <<dvars, mvars, ovars>>

NextArgv == execv

\* the relaunches of a process, at the level of the command line
SpecArgv == InitArgv /\ [][NextArgv]_vars

\* the shape layer: a mesh handler is constructed and line searches move the mesh
InitShapeProblem == InitShape /\ SolverIdle /\ MemoryIdle /\ ExtrasIdle

SpecShape == InitShapeProblem /\ [][NextShape]_vars

\* one call of update_optimization_variables on a freshly constructed handler; the
\* process is single-threaded and nothing preempts the loop, so a pass that can be
\* made is made
InitTrialLoop == InitShapeProblem /\ mesh_config.remesh_iter = 0

NextTrialLoop ==
    \/ MeshHandler_init
    \/ begin_update
    \/ update_trial

SpecShapeFair == InitTrialLoop /\ [][NextTrialLoop]_vars /\ WF_vars(update_trial)

\* one call of compute_step
InitStepProblem ==
    InitStep /\ RanksIdle /\ SnesIdle /\ RemeshIdle /\ SolverIdle /\ MemoryIdle /\ DeformationIdle /\ ShapeIdle

SpecStep == InitStepProblem /\ [][NextStep]_vars

\* one call of compute_step on all ranks
InitRanksProblem ==
    /\ InitRanks /\ projection = NoProjection /\ step = NoStep
    /\ SnesIdle /\ RemeshIdle /\ SolverIdle /\ MemoryIdle /\ DeformationIdle /\ ShapeIdle

SpecRanks == InitRanksProblem /\ [][NextRanks]_vars

\* one remeshing on all ranks
InitRemeshProblem ==
    /\ InitRemeshing /\ ConstraintIdle
    /\ SnesIdle /\ SolverIdle /\ MemoryIdle /\ DeformationIdle /\ ShapeIdle

SpecRemesh == InitRemeshProblem /\ [][NextRemeshing]_vars

\* one call of snes_solve
InitSnesProblem ==
    InitSnes /\ ConstraintIdle /\ RemeshIdle /\ SolverIdle /\ MemoryIdle /\ DeformationIdle /\ ShapeIdle

SpecSnes == InitSnesProblem /\ [][NextSnes]_vars

(***************************************************************************)
(* Claims about the DeformationHandler (checked under SpecDeformation)     *)
(***************************************************************************)
MoveOps == {"move_mesh", "assign_coordinates"}

\* the coordinates a call wrote into the mesh before its a posteriori test
Trial(call) == IF call.op = "move_mesh" THEN add(call.pre, call.arg) ELSE call.arg

\* C1: after a mesh move that returned success (move_mesh, pre-validated or not, or
\* assign_coordinates), an immediately following revert_transformation() succeeds and
\* leaves the coordinates equal to the coordinates that held just before that move,
\* whatever moves were accepted earlier.
C1_RevertRestoresPreMove ==
    [][(/\ last_call.op \in MoveOps
        /\ last_call.ret = "True"
        /\ last_call'.op = "revert_transformation")
       => (/\ last_call'.ret = "None"
           /\ coordinates' = last_call.pre)]_vars

\* C1 witness: a revert has undone an accepted move that had changed the mesh
C1_Witness ==
    /\ last_call.op = "revert_transformation"
    /\ last_call.ret = "None"
    /\ coordinates # last_call.pre

\* C2: a move_mesh call without pre-validation whose transformation has a cell with
\* det(I + grad u) <= 0 returns failure, leaves the coordinates as they were and
\* never writes the coordinate array during the call.
C2_InfeasibleMoveWritesNothing ==
    (/\ last_call.op = "move_mesh"
     /\ ~last_call.validated
     /\ \E c \in Cells : det_sign(last_call.pre, last_call.arg, c) <= 0)
    => (/\ last_call.ret = "False"
        /\ coordinates = last_call.pre
        /\ last_call.writes = 0)

\* C2 witness: a not pre-validated move whose minimum determinant is exactly zero
\* (a cell collapses) has been called
C2_Witness ==
    /\ last_call.op = "move_mesh"
    /\ ~last_call.validated
    /\ \E c \in Cells : det_sign(last_call.pre, last_call.arg, c) = 0
    /\ \A c \in Cells : det_sign(last_call.pre, last_call.arg, c) >= 0

\* C3: when a call has written the moved coordinates and the a posteriori test finds
\* a vertex whose collision count differs from the reference count, the call returns
\* failure and the coordinates on return are those of before the call.
C3_APosterioriFailureRollsBack ==
    (/\ last_call.op \in MoveOps
     /\ last_call.writes > 0
     /\ ~collisions_match(Trial(last_call)))
    => (/\ last_call.ret = "False"
        /\ coordinates = last_call.pre)

\* C3 witness: a pre-validated move_mesh produced a tangled mesh and was rolled back
C3_Witness ==
    /\ last_call.op = "move_mesh"
    /\ last_call.validated
    /\ last_call.writes > 0
    /\ ~collisions_match(Trial(last_call))
    /\ Trial(last_call) # last_call.pre

\* C4 as stated: revert_transformation() succeeds only when a move has been applied
\* and not yet reverted; in every other state (directly after construction, after a
\* revert, after an a posteriori rollback) it raises.
C4_RevertNeedsAppliedMove ==
    [][last_call'.op = "revert_transformation"
       => (last_call'.ret = "None" <=> snapshot_event = "move")]_vars

\* C4 amended: revert_transformation() succeeds exactly when a snapshot exists, that
\* is when the last event on the snapshot is the construction of the handler (which
\* stores the initial coordinates) or an applied move; after a revert or an a
\* posteriori rollback it raises and leaves the coordinates unchanged.  A move
\* rejected a priori leaves the snapshot as it was.  Two consecutive reverts never
\* both succeed.
C4_RevertNeedsSnapshot ==
    [][/\ last_call'.op = "revert_transformation"
          => /\ last_call'.ret = "None" <=> snapshot_event \in {"__init__", "move"}
             /\ last_call'.ret = "AttributeError"
                    <=> snapshot_event \in {"revert", "rollback"}
             /\ last_call'.ret = "AttributeError" => coordinates' = coordinates
             /\ (last_call.op = "revert_transformation" /\ last_call.ret = "None")
                    => last_call'.ret = "AttributeError"
       /\ (last_call'.op = "move_mesh" /\ last_call'.writes = 0)
          => (old_coordinates' = old_coordinates /\ snapshot_event' = snapshot_event)]_vars

\* C4 witness: a revert called after an a posteriori rollback has raised
C4_Witness ==
    /\ last_call.op = "revert_transformation"
    /\ last_call.ret = "AttributeError"
    /\ snapshot_event = "rollback"

(***************************************************************************)
(* Claims about the curvature memory                                       *)
(***************************************************************************)
\* C5: with bfgs_memory_size >= 1, whenever update_hessian_approximation has
\* returned, whatever the outcomes of the curvature tests so far, the three
\* histories have the same length and it is at most bfgs_memory_size.
C5_HistoriesSameLengthWithinMemory ==
    (bfgs_memory_size >= 1 /\ last_update.ret = "None")
    => /\ Len(history_s) = Len(history_y)
       /\ Len(history_y) = Len(history_rho)
       /\ Len(history_rho) <= bfgs_memory_size

\* the third update found the memory full, passed the curvature test and left it full
C5_Witness ==
    /\ bfgs_memory_size = 2
    /\ last_update.ret = "None"
    /\ last_update.calls = 3
    /\ last_update.before = 2
    /\ last_update.curvature > 0
    /\ Len(history_rho) = 2

\* the last update_hessian_approximation call found a curvature ratio <= 1e-14
CurvatureTestFailed ==
    /\ bfgs_memory_size >= 1
    /\ last_update.ret = "None"
    /\ last_update.ss * last_update.yy > 0
    /\ ratio_fails(last_update.curvature, last_update.ss, last_update.yy)

\* C6: when the curvature ratio of the new pair is <= 1e-14 the update leaves the
\* three histories empty, the new pair and the pairs of earlier updates discarded,
\* and has_curvature_info false; and at no position of the loop is one of the
\* histories empty while another is not.
C6_FailedCurvatureClearsEverything ==
    /\ CurvatureTestFailed
       => /\ history_s = <<>>
          /\ history_y = <<>>
          /\ history_rho = <<>>
          /\ ~has_curvature_info
    /\ lbfgs_pc # "raised"
       => /\ (history_s = <<>>) = (history_y = <<>>)
          /\ (history_y = <<>>) = (history_rho = <<>>)

\* an update with orthogonal s and y found two stored pairs and discarded them
C6_Witness ==
    /\ CurvatureTestFailed
    /\ last_update.curvature = 0
    /\ last_update.before = 2
    /\ history_rho = <<>>

(***************************************************************************)
(* Claims about the solver process                                         *)
(***************************************************************************)
\* the events of a log, and the place of an event in it (0 when it is absent)
Events(l) == {l[i] : i \in 1..Len(l)}
Pos(l, e) == IF e \in Events(l) THEN CHOOSE i \in 1..Len(l) : l[i] = e ELSE 0
Before(l, a, b) == Pos(l, a) > 0 /\ Pos(l, a) < Pos(l, b)

\* C7: convergence_test declares convergence exactly when the norm just computed is
\* at most atol + rtol * (the norm captured at iteration 0), the initial norm is
\* captured once, and along the norms the loop has produced convergence is declared
\* at the first norm that meets the threshold: no earlier norm met it.
C7_ConvergedAtFirstNormBelowThreshold ==
    Len(norms) > 0 =>
        /\ Len(captured) = 1
        /\ captured[1] = norms[1]
        /\ converged <=> MeetsTolerance(norms[Len(norms)], captured[1], config)
        /\ \A i \in 1..(Len(norms) - 1) : ~MeetsTolerance(norms[i], captured[1], config)
        /\ pc # "run" => /\ gradient_norm = norms[Len(norms)]
                         /\ gradient_norm_initial = captured[1]
        /\ pc \in {"loop", "gradient"} => ~converged

C7_Witness ==
    /\ converged
    /\ Len(norms) = 3
    /\ norms[3] > 0
    /\ norms[3] < norms[1]
    /\ ~MeetsTolerance(norms[2], captured[1], config)

\* post_processing has ended a run that did not converge and did not remesh
FatalExit ==
    /\ pc \in {"done", "raised"}
    /\ ~converged
    /\ ~(converged_reason = 0 - 3 /\ config.do_remesh)

\* the summaries are in the log, one after the other, and the exit follows them
SummariesBeforeExit ==
    /\ Before(log, "summary_txt", "history_json")
    /\ Pos(log, "history_json") = Len(log) - 1
    /\ IF config.soft_exit
       THEN pc = "done" /\ log[Len(log)] \in {"print", "error"}
       ELSE pc = "raised" /\ log[Len(log)] = "raise NotConvergedError"

C9_ResumeRestoresSolverState ==
    [][/\ (pc = "exec" /\ pc' = "run")
          => /\ output_dict' = output_dict
             /\ output_dict' = get(json_load(checkpoint_file), "output_dict", EmptySeries)
             /\ launch' = launch + 1
       /\ (launch >= 1 /\ pc = "run" /\ pc' # "run")
          => /\ iteration' = line_searches
             /\ iteration' = Len(output_dict.stepsize)
             /\ gradient_norm_initial' = captured[1]
       /\ (launch >= 1 /\ pc # "run" /\ pc' # "run")
          => /\ gradient_norm_initial' = gradient_norm_initial
             /\ captured' = captured]_vars

C9_Witness ==
    /\ launch = 2
    /\ pc = "loop"
    /\ iteration = 2
    /\ gradient_norm # gradient_norm_initial
    /\ gradient_norm_initial = norms[1]
    /\ Len(output_dict.stepsize) = 2

\* remesh() was called by the step that is being taken
RemeshCalled ==
    /\ pc = "post_processing"
    /\ post_processing_plan(converged, converged_reason, config).remesh
    /\ pc' # "post_processing"

\* C10: remesh() exports the mesh, runs the mesh generator, runs the converter,
\* writes the checkpoint and relaunches, in this order; the checkpoint is written
\* only after the commands exited with status 0 and the relaunch happens only after
\* the checkpoint, holding the new mesh files, the remesh counter, the iteration
\* counter and the initial gradient norm, is written and closed; a command that
\* exits non-zero ends remesh() with its error: no command runs twice, the
\* checkpoint file is not touched and the process is not relaunched.
C10_RemeshOrder ==
    [][RemeshCalled =>
        /\ Pos(log', "write_out_mesh") > 0
        /\ \A i, j \in 1..Len(log') : i # j => log'[i] # log'[j]
        /\ Pos(log', "json.dump") > 0
           => /\ Before(log', "write_out_mesh", "gmsh")
              /\ Before(log', "gmsh", "cashocs-convert")
              /\ Before(log', "cashocs-convert", "open temp_dict.json")
              /\ Before(log', "open temp_dict.json", "json.dump")
        /\ Pos(log', "execv") > 0
           => /\ pc' = "exec"
              /\ Before(log', "json.dump", "close temp_dict.json")
              /\ Before(log', "close temp_dict.json", "execv")
              /\ LET d == json_load(checkpoint_file') IN
                 /\ {"mesh_file", "gmsh_file", "remesh_counter", "iteration_counter",
                     "gradient_norm_initial"} \subseteq d.present
                 /\ d["mesh_file"] = remesh_counter'
                 /\ d["gmsh_file"] = remesh_counter'
                 /\ d["remesh_counter"] = remesh_counter + 1
                 /\ d["iteration_counter"] = iteration' + 1
                 /\ d["gradient_norm_initial"] = gradient_norm_initial
        /\ (\E c \in {"gmsh", "mv", "cashocs-convert", "rm"} : Pos(log', c \o " failed") > 0)
           => /\ pc' = "raised"
              /\ log'[Len(log')] = "raise CalledProcessError"
              /\ Events(log') \cap {"open temp_dict.json", "json.dump",
                                    "close temp_dict.json", "execv"} = {}
              /\ checkpoint_file' = checkpoint_file
        /\ pc' = "exec" <=> Pos(log', "execv") > 0]_vars

C10_Witness ==
    /\ pc = "raised"
    /\ launch = 1
    /\ Pos(log, "cashocs-convert failed") > 0
    /\ Pos(log, "gmsh") > 0
    /\ checkpoint_file # <<>>

(***************************************************************************)
(* Claims about the command line of the relaunched process                 *)
(***************************************************************************)
Count(l, x) == Cardinality(Indices(l, x))

\* C11 as stated: the command line of every relaunched process holds
\* '--cashocs_remesh' exactly once and '--temp_dir' exactly once, immediately
\* followed by the checkpoint directory; a command line holding the flag, the
\* directory or '--temp_dir' more than once is rejected with InputError; and the
\* command line does not grow from one relaunch to the next.
C11_RelaunchCommandLineCanonical ==
    [][/\ launch' > launch
          => /\ Count(argv', "--cashocs_remesh") = 1
             /\ Count(argv', "--temp_dir") = 1
             /\ \E i \in 1..(Len(argv') - 1) : argv'[i] = "--temp_dir" /\ argv'[i + 1] = TempDir
             /\ launch >= 1 => Len(argv') <= Len(argv)
       /\ (\E t \in {"--cashocs_remesh", "--temp_dir", TempDir} : Count(argv, t) > 1)
          => (pc' = "raised" /\ launch' = launch /\ argv' = argv)]_vars

(***************************************************************************)
(* Claims about the shape layer (checked under SpecShape)                  *)
(***************************************************************************)
\* requires_remeshing() has just been asked, at iteration - 1, after the step of the
\* line search (a step the line search has undone is not followed by the question)
RemeshingAsked ==
    shape_pc \in {"idle", "remesh"} /\ Len(qualities) > 0 /\ last_call.op = "move_mesh"

RECURSIVE Reduced(_, _)
Reduced(t, n) == IF n = 0 THEN t ELSE Reduced(t \div Beta, n - 1)

\* C13: when update_optimization_variables or update_constrained_optimization_variables
\* returns a stepsize t, the last mesh move passed the a priori and the a posteriori
\* check, the recorded mesh quality is at least tol_lower, t is the stepsize passed in
\* divided by beta once per rejected trial (constrained variant: t is the stepsize of
\* the last compute_step, each rejected trial having divided by beta the stepsize
\* compute_step returned), and every rejected trial has been undone before the next
\* trial starts.
C13_ReturnedStepsizeIsOfAnAcceptedMove ==
    /\ shape_pc = "returned"
       => /\ last_move.a_priori /\ last_move.ret = "True" /\ ~last_move.reverted
          /\ current_mesh_quality >= mesh_config.tol_lower
          /\ current_mesh_quality = compute_mesh_quality(coordinates)
          /\ coordinates = add(trial.start, scaled(trial.stepsize, shape_direction))
          /\ ~trial.constrained
             => trial.stepsize = Reduced(trial.passed_in, trial.rejected)
          /\ trial.constrained
             => /\ trial.stepsize = trial.computed
                /\ trial.stepsize <= Reduced(trial.passed_in, trial.rejected)
    /\ shape_pc = "trial"
       => /\ coordinates = trial.start
          /\ trial.rejected > 0 => trial.stepsize = trial.computed \div Beta

\* a stepsize is returned after a trial was rejected for its quality and undone
C13_Witness ==
    /\ shape_pc = "returned"
    /\ trial.undone > 0
    /\ trial.stepsize > 0
    /\ coordinates # trial.start

\* C16: constructing the mesh handler with tol_lower >= tol_upper (equal tolerances
\* included) raises IncompatibleConfigurationError during setup, before any mesh move,
\* quality-based decision or optimization iteration; with tol_lower < tol_upper setup
\* never raises it.
C16_IncompatibleTolerancesRejectedAtSetup ==
    /\ mesh_config.tol_lower >= mesh_config.tol_upper
       => /\ shape_pc \in {"construct", "raised"}
          /\ last_move = NoMove /\ trial = NoTrial
          /\ last_call.op = "__init__" /\ coordinates = last_call.pre
          /\ qualities = <<>> /\ ~requires_remeshing /\ iteration = 0
    /\ mesh_config.tol_lower < mesh_config.tol_upper => shape_pc # "raised"

\* the handler was constructed with equal tolerances and the constructor raised
C16_Witness ==
    /\ shape_pc = "raised"
    /\ mesh_config.tol_lower = mesh_config.tol_upper

\* the determinant of the last deformation on cell c is new / old, both signed lengths
OldLength(c) == last_move.pre[c[2]] - last_move.pre[c[1]]
NewLength(c) == OldLength(c) + last_move.arg[c[2]] - last_move.arg[c[1]]

\* C20: _MeshHandler.move_mesh returns failure without moving the mesh for every
\* deformation whose minimum determinant is <= 0, or below 1 / volume_change, or
\* whose maximum determinant is above volume_change, for every configured
\* volume_change, the default (unbounded) one included.
C20_InadmissibleDeformationNeverWritten ==
    (/\ last_move.ret # "none"
     /\ \E c \in Cells :
           \/ NewLength(c) * OldLength(c) <= 0
           \/ /\ ~mesh_config.volume_change.inf
              /\ \/ NewLength(c) * OldLength(c) * mesh_config.volume_change.v
                       < OldLength(c) * OldLength(c)
                 \/ NewLength(c) * OldLength(c)
                       > mesh_config.volume_change.v * OldLength(c) * OldLength(c))
    => (last_move.ret = "False" /\ last_move.writes = 0 /\ ~last_move.a_priori)

NonconvergenceCalled == pc = "loop" /\ pc' # "loop"

\* one of the four conditions holds when nonconvergence() is called
SomeConditionHolds ==
    \/ iteration >= config.maximum_iterations
    \/ line_search_broken
    \/ requires_remeshing
    \/ remeshing_its

\* C19 as stated: nonconvergence() returns true exactly when one of the four
\* conditions holds, and when several hold the reason recorded is the first one in
\* the order iteration budget, line search broken, remeshing required, remeshing
\* iterations.
C19_FirstConditionDecidesReason ==
    [][NonconvergenceCalled
       => /\ (pc' = "post_processing") <=> SomeConditionHolds'
          /\ SomeConditionHolds'
             => converged_reason' = IF iteration' >= config.maximum_iterations THEN 0 - 1
                                    ELSE IF line_search_broken' THEN 0 - 2
                                    ELSE IF requires_remeshing' THEN 0 - 3
                                    ELSE 0 - 4]_vars

\* C19 amended: nonconvergence() returns true exactly when one of the four conditions
\* holds; the four tests are made in the order given, each overwriting the reason, so
\* when several hold the reason recorded is the last one in that order; when none
\* holds the reason is left as it was.
C19_LastConditionDecidesReason ==
    [][NonconvergenceCalled
       => /\ (pc' = "post_processing") <=> SomeConditionHolds'
          /\ SomeConditionHolds'
             => converged_reason' = IF remeshing_its' THEN 0 - 4
                                    ELSE IF requires_remeshing' THEN 0 - 3
                                    ELSE IF line_search_broken' THEN 0 - 2
                                    ELSE 0 - 1
          /\ ~SomeConditionHolds' => converged_reason' = converged_reason]_vars

\* the budget is reached in the iteration whose line search asks for remeshing
C19_Witness ==
    /\ pc = "post_processing"
    /\ ~converged
    /\ iteration >= config.maximum_iterations
    /\ requires_remeshing /\ ~remeshing_its
    /\ converged_reason = 0 - 3

(***************************************************************************)
(* Claims about the nonlinear solver (checked under SpecSnes)              *)
(***************************************************************************)
\* C17: snes_solve / SNESSolver.solve either returns the solution of a converged
\* nonlinear solve or fails with a not-converged error carrying the backend's reason
\* code; it never returns normally when the backend reports divergence.
C17_DivergedSolveNeverReturns ==
    /\ snes.pc = "returned" => (snes.reason > 0 /\ snes.result = snes.u)
    /\ snes.pc = "raised" => (snes.error = "NotConvergedError" /\ snes.reason < 0)

(***************************************************************************)
(* Claims about the projection onto the working set (checked under         *)
(* SpecStep)                                                               *)
(***************************************************************************)
\* C14: whenever project_to_working_set returns a value (not None), that value
\* satisfies every constraint of the working set (active_idx) within the configured
\* tolerance, on every rank.
C14_ProjectedValueOnWorkingSet ==
    projection.pc = "returned"
    => \A r \in Ranks : \A k \in step.active_idx \cap {r} :
          /\ projection.y[k] - Limit <= ConstraintTol
          /\ Limit - projection.y[k] <= ConstraintTol

\* a value is returned after a correction, the working set holding the constraints
\* of both ranks
C14_Witness ==
    /\ projection.pc = "returned"
    /\ step.active_idx = Ranks
    /\ projection.i > 1
    /\ projection.y # trial_point(step.coords, step.direction, projection.stepsize)

\* C15: whenever compute_step returns (coordinates, stepsize), the coordinates are
\* feasible for every constraint that is not in the dropped set, they are what
\* project_to_working_set returned for the trial point of exactly the returned
\* stepsize, and the returned stepsize is not larger than the stepsize passed in.
C15_ComputedStepFeasible ==
    step.pc = "returned"
    => /\ \A k \in Ranks \ step.dropped_idx :
             step.feasible_step[k] - Limit <= ConstraintTol
       /\ projection.pc = "returned"
       /\ projection.y = step.feasible_step
       /\ projection.stepsize = step.feasible_stepsize
       /\ \A k \in Ranks \ step.active_idx :
             step.feasible_step[k]
                = trial_point(step.coords, step.direction, step.feasible_stepsize)[k]
       /\ step.feasible_stepsize <= step.passed_in

\* the trial step was infeasible and the step returned is that of a smaller stepsize
C15_Witness ==
    /\ step.pc = "returned"
    /\ step.halvings = 0
    /\ step.feasible_stepsize > 0
    /\ step.feasible_stepsize < step.passed_in
    /\ step.active_idx # {}
    /\ projection.i > 0

(***************************************************************************)
(* Further claims about the curvature memory (checked under SpecMemory)    *)
(***************************************************************************)
\* C23: check_for_ascent: if the scalar product of the gradient and the candidate
\* search direction is >= 0, the search direction becomes the negative gradient and
\* has_curvature_info false, history_s, history_y and history_rho left unchanged; if
\* it is < 0 the direction, the flag and the histories are all left unchanged.
C23_AscentGuardKeepsMemory ==
    [][lbfgs_pc = "check_for_ascent"
       => /\ <<history_s, history_y, history_rho>>' = <<history_s, history_y, history_rho>>
          /\ IF gradient[1] * search_direction[1] + gradient[2] * search_direction[2] >= 0
             THEN /\ search_direction' = <<0 - gradient[1], 0 - gradient[2]>>
                  /\ ~has_curvature_info'
             ELSE /\ search_direction' = search_direction
                  /\ has_curvature_info' = has_curvature_info]_vars

\* the guard replaced the direction of a non-empty memory by the negative gradient
C23_Witness ==
    /\ lbfgs_pc = "line_search"
    /\ Len(history_s) > 0 /\ Len(history_rho) = Len(history_s)
    /\ ~has_curvature_info
    /\ search_direction = <<0 - gradient[1], 0 - gradient[2]>>

\* the first n entries of a history
FirstN(h, n) == SubSeq(h, 1, IF Len(h) < n THEN Len(h) ELSE n)

\* the pair of the update under way and its rho
NewS == <<stepsize * search_direction[1], stepsize * search_direction[2]>>
NewY == <<gradient[1] - gradient_prev[1], gradient[2] - gradient_prev[2]>>
NewCurvature == NewY[1] * NewS[1] + NewY[2] * NewS[2]

\* C24: when the curvature test passes and the histories already hold
\* bfgs_memory_size pairs, update_hessian_approximation inserts the new (s, y, rho)
\* as the newest entry and removes exactly the oldest entry of each history; after
\* any sequence of updates the histories hold the most recent min(k, bfgs_memory_size)
\* accepted pairs since the last clear, newest first, and the same index of
\* history_s, history_y and history_rho refers to the same pair.
C24_NewestInOldestOut ==
    [][(/\ lbfgs_pc = "update_hessian_approximation"
        /\ bfgs_memory_size > 0
        /\ NewCurvature > 0)
       => /\ lbfgs_pc' = "compute_search_direction"
          /\ history_s' = FirstN(<<NewS>> \o history_s, bfgs_memory_size)
          /\ history_y' = FirstN(<<NewY>> \o history_y, bfgs_memory_size)
          /\ history_rho' = FirstN(<<<<1, NewCurvature>>>> \o history_rho, bfgs_memory_size)
          /\ Len(history_s) = bfgs_memory_size
             => /\ Len(history_s') = bfgs_memory_size
                /\ \A i \in 2..bfgs_memory_size : history_s'[i] = history_s[i - 1]
          /\ \A i \in 1..Len(history_s') :
                history_rho'[i] = <<1, history_y'[i][1] * history_s'[i][1]
                                       + history_y'[i][2] * history_s'[i][2]>>]_vars

\* the third accepted pair pushed the first one out of a memory of two
C24_Witness ==
    /\ bfgs_memory_size = 2
    /\ last_update.ret = "None"
    /\ last_update.calls = 3
    /\ last_update.before = 2
    /\ last_update.curvature > 0
    /\ lbfgs_pc = "compute_search_direction"
    /\ Len(history_s) = 2
    /\ history_s[1] = NewS
    /\ history_s[1] # history_s[2]

(***************************************************************************)
(* Further claims about the projection and the step (checked under         *)
(* SpecStep)                                                               *)
(***************************************************************************)
\* C25: project_to_working_set performs at most 10 correction steps and returns
\* None only when the iterate still violates a working-set constraint after the
\* permitted correction steps: whenever an iterate obtained within the 10
\* corrections satisfies the working set, a value is returned.
C25_NoneOnlyForViolatingIterate ==
    /\ projection.pc # "idle" => projection.i <= RetryBound
    /\ projection.pc = "returned None"
       => ~satisfies_previous_constraints(projection.y, step.active_idx)

\* C26: compute_step answers a failed projection (None) by halving the stepsize
\* and projecting again, and when the projection has failed down to the minimal
\* stepsize (one that cannot be halved to a positive stepsize any more) it stops
\* with a fatal failure, so that the halving loop never retries forever.
C26_PersistentFailureIsFatal ==
    [][(step.pc = "trial" /\ projection.pc = "returned None")
       => IF halve(step.stepsize) > 0
          THEN /\ step'.pc = "trial"
               /\ step'.stepsize = halve(step.stepsize)
               /\ projection'.pc = "loop"
               /\ projection'.stepsize = halve(step.stepsize)
          ELSE step'.pc = "raised"]_vars

(***************************************************************************)
(* Further claims about the trial loop and the mesh quality (checked       *)
(* under SpecShape)                                                        *)
(***************************************************************************)
\* the line search has undone the step that the update call returned
RevertedByCaller == shape_pc = "idle" /\ last_call.op = "revert_transformation"

\* C27: inside update_optimization_variables and
\* update_constrained_optimization_variables every trial starts from the
\* coordinates on entry to the call, however the previous trials were rejected;
\* revert is never called without a snapshot; on return the snapshot holds the
\* entry coordinates, and a single revert_variable_update by the caller restores
\* the mesh of before the call.
C27_TrialsStartFromEntryMesh ==
    /\ shape_pc = "trial" => coordinates = trial.start
    /\ last_call.ret # "AttributeError"
    /\ shape_pc = "returned" => old_coordinates = trial.start
    /\ RevertedByCaller => coordinates = trial.start

\* a call that undid a move of low quality returned a moved mesh, and the caller's
\* revert restored the entry mesh
C27_Witness ==
    /\ RevertedByCaller
    /\ trial.rejected >= 1
    /\ trial.undone > 0
    /\ last_call.pre # trial.start
    /\ coordinates = trial.start

\* C29: whenever no mesh move is in progress, current_mesh_quality is the quality
\* of the mesh's current coordinates: after every move_mesh call (accepted,
\* rejected a priori or rolled back a posteriori) and after every
\* revert_transformation, so that the remesh and convergence decisions never read
\* the quality of a mesh that has been rolled back.
C29_QualityIsOfCurrentMesh ==
    shape_pc \in {"idle", "trial", "returned", "remesh"}
    => current_mesh_quality = compute_mesh_quality(coordinates)

(***************************************************************************)
(* Further claims about the solver process (checked under Spec)            *)
(***************************************************************************)
\* the names of the history series
SeriesNames == {"cost_function_value", "gradient_norm", "stepsize", "MeshQuality"}

\* C28: at every history append made by the run loop or by post_processing, the
\* number of entries already stored in each history series equals the iteration
\* counter, so that entry i describes iteration i and the series have equal
\* lengths, on the first launch and across remesh checkpoints and relaunches.
C28_AppendAtIterationCounter ==
    [][(pc \in {"loop", "post_processing"} /\ output_dict' # output_dict)
       => \A name \in SeriesNames :
             /\ Len(output_dict[name]) = iteration
             /\ Len(output_dict'[name]) = iteration + 1]_vars

\* a relaunched process has appended the entry of its first iteration
C28_Witness ==
    /\ launch >= 1
    /\ pc = "gradient"
    /\ iteration >= 2
    /\ \A name \in SeriesNames : Len(output_dict[name]) = iteration

\* the counter at the start of the run under way
c0 == initialize_solver(temp_dict).iteration

InRun == pc \in {"loop", "gradient", "post_processing"}

\* C30: provided every line search and gradient computation returns,
\* LBFGSMethod.run terminates: the iteration counter increases by exactly one per
\* line search, run performs at most max(1, maximum_iterations - c0) line
\* searches, where c0 is the counter at the start, and when run returns either
\* converged is true or converged_reason names a non-convergence reason.
C30_RunTerminates ==
    /\ [](InRun => /\ iteration >= c0
                   /\ iteration - c0 <= Max2(1, config.maximum_iterations - c0))
    /\ [](pc = "post_processing"
          => converged \/ converged_reason \in {0 - 1, 0 - 2, 0 - 3, 0 - 4})
    /\ [][line_searches' # line_searches
          => /\ line_searches' = line_searches + 1
             /\ iteration' = iteration + 1]_vars
    /\ [][(InRun /\ iteration' # iteration /\ pc # "post_processing")
          => line_searches' = line_searches + 1]_vars
    /\ (pc \in {"run", "loop", "gradient"}) ~> (pc = "post_processing")

\* a run resumed at a counter that is already maximum_iterations made its one line
\* search and returned
C30_Witness ==
    /\ launch >= 1
    /\ pc = "post_processing"
    /\ c0 >= config.maximum_iterations
    /\ iteration = c0 + 1
    /\ converged_reason < 0

ClosedAt == CHOOSE i \in 1..Len(remesh_steps) : remesh_steps[i] = "close temp_dict.json"

\* C22: with several ranks remeshing is a synchronization point: no rank relaunches
\* before every rank has finished exporting the mesh, generating the new mesh and
\* writing the checkpoint, so that a relaunched rank never reads a checkpoint file
\* or a mesh file that another rank is still writing or has truncated.
C22_RelaunchAfterAllRanksWrote ==
    \A r \in Ranks :
       Relaunched(r)
       => /\ \A q \in Ranks : remeshing.pos[q] >= ClosedAt
          /\ remeshing.read[r] \in {NotRead, [checkpoint |-> "complete", mesh |-> "complete"]}

====
